---- MODULE Spec2Model ----
(***************************************************************************)
(* Model of the angel-one-backend Express server.                          *)
(*                                                                         *)
(* The server is single-threaded and event driven: a handler runs without  *)
(* interruption from its start to its first await, and from one await to   *)
(* the next.  Each action below is one such run-to-completion segment of a *)
(* handler: it consumes the outcome of the upstream call the request was   *)
(* suspended on (drawn with \E from the outcomes the upstream can produce) *)
(* and runs the code up to the next await or to the response.              *)
(*                                                                         *)
(* The repository holds several versions of the server file.  The latest   *)
(* one is src/index.js; the handlers of earlier versions that differ in    *)
(* behaviour are modelled as routes of their own, named after the version. *)
(***************************************************************************)
EXTENDS Integers, Sequences, FiniteSets, TLC

(***************************************************************************)
(* Bounds of the model                                                     *)
(***************************************************************************)
\* the longest one-year closing-price series the upstream returns
MaxLen == 201
\* number of request slots (requests the server holds at the same time)
MaxReqs == 2

(***************************************************************************)
(* Program constants                                                       *)
(***************************************************************************)
RSI_PERIOD == 14
SMA20_PERIOD == 20
SMA50_PERIOD == 50
SMA200_PERIOD == 200
\* for (let i = 0; i < 5; i++): previous-close lookback
MAX_LOOKBACK == 5
\* for (let i = 0; i < 7; i++): the search for the last trading date
MAX_SEARCH == 7
\* candles.length < 200 of the earlier versions
MIN_CANDLES_V1 == 200

(***************************************************************************)
(* JavaScript values.  A number is the exact rational n/d (d > 0, lowest   *)
(* terms); NaN and +-Infinity are values of their own, as in IEEE 754.     *)
(* Floating-point rounding is not modelled.                                *)
(***************************************************************************)
RECURSIVE GCD(_, _)
GCD(a, b) == IF b = 0 THEN a ELSE GCD(b, a % b)

Abs(x) == IF x < 0 THEN -x ELSE x

JsVal(kind, num, den, str) == [k |-> kind, n |-> num, d |-> den, s |-> str]

Num(x) == JsVal("num", x, 1, "")
JsNull == JsVal("null", 0, 1, "")
JsUndef == JsVal("undef", 0, 1, "")
JsNaN == JsVal("nan", 0, 1, "")
JsInf(sign) == JsVal("inf", sign, 1, "")
Str(x) == JsVal("str", 0, 1, x)
JsObj(x) == JsVal("obj", 0, 1, x)

\* the rational a/b in lowest terms with a positive denominator (b # 0)
Rat(a, b) ==
    LET g == GCD(Abs(a), Abs(b))
        sg == IF b < 0 THEN -1 ELSE 1
    IN  JsVal("num", (sg * a) \div g, (sg * b) \div g, "")

IsNum(v) == v.k = "num"

\* !v is false
Truthy(v) ==
    CASE v.k = "num" -> v.n # 0
      [] v.k = "str" -> v.s # ""
      [] v.k = "inf" -> TRUE
      [] v.k = "obj" -> TRUE
      [] OTHER -> FALSE

\* ToNumber of the arithmetic operators: null is 0, undefined is NaN
ToNumber(v) ==
    CASE v.k = "num" -> v
      [] v.k = "inf" -> v
      [] v.k = "null" -> Num(0)
      [] v.k = "str" /\ v.s = "" -> Num(0)
      [] OTHER -> JsNaN

JsNeg(v) ==
    CASE v.k = "num" -> Rat(-v.n, v.d)
      [] v.k = "inf" -> JsInf(-v.n)
      [] OTHER -> v

\* a + b on numbers (after ToNumber)
JsAdd(a, b) ==
    LET x == ToNumber(a)
        y == ToNumber(b)
    IN  CASE x.k = "nan" \/ y.k = "nan" -> JsNaN
          [] x.k = "inf" /\ y.k = "inf" -> IF x.n = y.n THEN x ELSE JsNaN
          [] x.k = "inf" -> x
          [] y.k = "inf" -> y
          [] OTHER -> Rat(x.n * y.d + y.n * x.d, x.d * y.d)

\* a - b
JsSub(a, b) == JsAdd(a, JsNeg(ToNumber(b)))

Sign(x) == IF x < 0 THEN -1 ELSE IF x > 0 THEN 1 ELSE 0

\* a * b
JsMul(a, b) ==
    LET x == ToNumber(a)
        y == ToNumber(b)
    IN  CASE x.k = "nan" \/ y.k = "nan" -> JsNaN
          [] x.k = "inf" \/ y.k = "inf" ->
                IF x.n = 0 \/ y.n = 0 THEN JsNaN ELSE JsInf(Sign(x.n) * Sign(y.n))
          [] OTHER -> Rat(x.n * y.n, x.d * y.d)

\* a / b: x/0 is +-Infinity, 0/0 is NaN
JsDiv(a, b) ==
    LET x == ToNumber(a)
        y == ToNumber(b)
    IN  CASE x.k = "nan" \/ y.k = "nan" -> JsNaN
          [] x.k = "inf" /\ y.k = "inf" -> JsNaN
          [] x.k = "inf" -> JsInf(x.n * (IF y.n < 0 THEN -1 ELSE 1))
          [] y.k = "inf" -> Num(0)
          [] y.n = 0 -> IF x.n = 0 THEN JsNaN ELSE JsInf(Sign(x.n))
          [] OTHER -> Rat(x.n * y.d, x.d * y.n)

\* a === b
StrictEq(a, b) ==
    CASE a.k = "nan" \/ b.k = "nan" -> FALSE
      [] OTHER -> a = b

\* a > b (false when either side is NaN)
JsGt(a, b) ==
    LET x == ToNumber(a)
        y == ToNumber(b)
    IN  CASE x.k = "nan" \/ y.k = "nan" -> FALSE
          [] x.k = "inf" -> x.n > 0 /\ ~(y.k = "inf" /\ y.n > 0)
          [] y.k = "inf" -> y.n < 0
          [] OTHER -> x.n * y.d > y.n * x.d

\* what JSON.stringify writes for a value of a response object: NaN and
\* +-Infinity are written as null
Json(v) == IF v.k \in {"nan", "inf"} THEN JsNull ELSE v

(***************************************************************************)
(* The technicalindicators library, as index.js uses it: X.calculate       *)
(* returns an array; the handlers read only its length and its last        *)
(* element, so an array is kept as [len, last].                            *)
(***************************************************************************)
RECURSIVE SumFrom(_, _, _)
\* values[from] + ... + values[to]
SumFrom(values, from, to) ==
    IF from > to THEN Num(0)
    ELSE IF from = to THEN JsAdd(Num(0), values[from])
    ELSE LET mid == (from + to) \div 2
         IN  JsAdd(SumFrom(values, from, mid), SumFrom(values, mid + 1, to))

NoValues == [len |-> 0, last |-> JsUndef]

\* SMA.calculate({values, period}): one mean per full trailing window
SMA(values, period) ==
    LET n == Len(values)
    IN  IF n < period THEN NoValues
        ELSE [len |-> n - period + 1,
              last |-> JsDiv(SumFrom(values, n - period + 1, n), Num(period))]

\* the up move and the down move from values[j-1] to values[j], in
\* thousandths (a comparison with NaN is false: such a move counts as 0)
Move(values, j) == JsSub(values[j], values[j - 1])
Milli(v) == (v.n * 1000) \div v.d
GainAt(values, j) ==
    LET m == Move(values, j) IN IF JsGt(m, Num(0)) /\ IsNum(m) THEN Milli(m) ELSE 0
LossAt(values, j) ==
    LET m == Move(values, j) IN IF JsGt(Num(0), m) /\ IsNum(m) THEN Milli(JsNeg(m)) ELSE 0

RECURSIVE SumMoves(_, _, _, _)
\* the up (or down) moves into values[from], ..., values[to], summed
SumMoves(values, from, to, up) ==
    IF from > to THEN 0
    ELSE IF from = to
    THEN (IF up THEN GainAt(values, from) ELSE LossAt(values, from))
    ELSE LET mid == (from + to) \div 2
         IN  SumMoves(values, from, mid, up) + SumMoves(values, mid + 1, to, up)

\* Wilder's smoothing: avg = (avg * (period - 1) + move) / period
Smooth(values, period, j, avg, up) ==
    (avg * (period - 1) + (IF up THEN GainAt(values, j) ELSE LossAt(values, j)))
        \div period

RECURSIVE SmoothRun(_, _, _, _, _, _)
\* the average smoothed over the moves into values[j], ..., values[to]
SmoothRun(values, period, j, to, avg, up) ==
    IF j > to THEN avg
    ELSE SmoothRun(values, period, j + 1, to, Smooth(values, period, j, avg, up), up)

RECURSIVE SmoothBlocks(_, _, _, _, _, _)
\* the same, sixteen moves at a time
SmoothBlocks(values, period, j, to, avg, up) ==
    IF j > to THEN avg
    ELSE LET end == IF j + 15 < to THEN j + 15 ELSE to
             next == SmoothRun(values, period, j, end, avg, up)
         IN  IF next >= 0 THEN SmoothBlocks(values, period, end + 1, to, next, up)
             ELSE next

\* the smoothed average move after values[n], n > period: the mean of the
\* first period moves, smoothed over the moves that follow
WilderAvg(values, period, n, up) ==
    SmoothBlocks(values, period, period + 2, n,
                 SumMoves(values, 2, period + 1, up) \div period, up)

\* RSI.calculate({values, period}): the first value needs period moves, that
\* is period + 1 closes
RSI(values, period) ==
    LET n == Len(values)
    IN  IF n <= period THEN NoValues
        ELSE LET g == WilderAvg(values, period, n, TRUE)
                 l == WilderAvg(values, period, n, FALSE)
             IN  [len |-> n - period,
                  last |-> IF l = 0 THEN Num(100)
                           ELSE IF g = 0 THEN Num(0)
                           ELSE Rat(100 * g, g + l)]

(***************************************************************************)
(* What the upstream can answer                                            *)
(***************************************************************************)
\* a close read from a candle (c[4]): a price, 0, null, or no fifth element
CloseVals == {Num(0), Num(104), JsNull, JsUndef}

\* the closes before the last two of a one-year series
BaseClose(i) == 100 + ((i * 7) % 11)

Lens == {n \in {0, 1, 2, 13, 14, 15, 19, 20, 49, 50, 199, 200} : n <= MaxLen}
            \cup {MaxLen}

\* the lengths at which the series also end in a 0, a null or a missing close
TailLens == {1, 2, 15}

\* a one-year series of n closes ending in the closes p, l
Series(n, p, l) ==
    [i \in 1..n |-> IF i = n THEN l ELSE IF i = n - 1 THEN p ELSE Num(BaseClose(i))]

LastCloseVals == {Num(107), JsUndef}

YearSeries ==
    {Series(n, Num(104), Num(107)) : n \in Lens}
        \cup {Series(n, p, l) : n \in TailLens, p \in CloseVals, l \in LastCloseVals}

\* response.data.data of getCandleData: an array of candles (kept as the
\* array of their closes, the only element the handlers read), null,
\* undefined or an object that is no array
HArr(a) == [k |-> "arr", a |-> a]
HNull == [k |-> "null", a |-> <<>>]
HUndef == [k |-> "undef", a |-> <<>>]
HObj == [k |-> "obj", a |-> <<>>]
\* a string
HStr == [k |-> "str", a |-> <<>>]

\* an upstream answer: the call fails (HTTP error or network error), or it
\* returns response.data, which is empty (nobody) or carries a data field
UpErr == [o |-> "error", data |-> HNull]
UpNoBody == [o |-> "nobody", data |-> HNull]
UpData(x) == [o |-> "ok", data |-> x]

YearAnswers == {UpErr, UpNoBody, UpData(HNull), UpData(HObj)}
                  \cup {UpData(HArr(s)) : s \in YearSeries}

DayAnswers == {UpErr, UpData(HNull), UpData(HArr(<<>>))}
                  \cup {UpData(HArr(<<c>>)) : c \in CloseVals}

\* liveData.ltp of a getQuote answer
LtpVals == {JsUndef, JsNull, Num(0), Num(110)}

\* a getQuote answer in LTP mode: the call fails, response.data is empty, or
\* response.data.data is liveData (null, or an object with or without ltp)
\* no answer yet
QNone == [o |-> "none", has |-> FALSE, ltp |-> JsUndef]
QErr == [o |-> "error", has |-> FALSE, ltp |-> JsUndef]
QNoBody == [o |-> "nobody", has |-> FALSE, ltp |-> JsUndef]
QNoData == [o |-> "ok", has |-> FALSE, ltp |-> JsUndef]
QLive(ltp) == [o |-> "ok", has |-> TRUE, ltp |-> ltp]

QuoteAnswers == {QErr, QNoBody, QNoData} \cup {QLive(l) : l \in LtpVals}

(***************************************************************************)
(* State                                                                   *)
(***************************************************************************)
VARIABLES
    env,        \* the environment variables that are set (read once at start)
    session,    \* let session = {jwtToken, feedToken, refreshToken, profile}
    reqs        \* the requests in flight: locals, position, response

vars == <<env, session, reqs>>

Reqs == 1..MaxReqs

LoginCreds == {"ANGEL_API_KEY", "ANGEL_CLIENT_ID", "ANGEL_PASSWORD", "ANGEL_TOTP_SECRET"}
EnvNames == LoginCreds \cup {"GEMINI_API_KEY"}

NoBody == [t |-> "none"]

\* a request slot nobody uses
Idle ==
    [pc |-> "idle", route |-> "", status |-> 0, body |-> NoBody, calls |-> <<>>,
     closingPrices |-> <<>>, rsi |-> NoValues, sma20 |-> NoValues,
     sma50 |-> NoValues, sma200 |-> NoValues,
     currentPrice |-> JsNull, netChange |-> JsNull, percentChange |-> JsNull,
     candles |-> HNull, quoteResponse |-> QNone, previousTradingDayClose |-> JsNull,
     i |-> 0, fallback |-> FALSE,
     companyName |-> JsUndef,   \* req.body.companyName
     response |-> [o |-> "none", isArray |-> FALSE, list |-> <<>>],
     quoteData |-> <<>>, ohlcRawData |-> <<>>, k |-> 0, previousClose |-> JsNull,
     actualLastTradingDate |-> -1,  \* days before today; -1 is null
     currentClose |-> JsNull]

\* an upstream call of a request: the API called, the bearer token sent and,
\* for a single-day candle fetch, how many days before today the day is
Call(api, token, day) == [api |-> api, token |-> token, day |-> day]

\* res.status(code).json(body): the request is answered
Respond(q, code, body) == [q EXCEPT !.pc = "done", !.status = code, !.body = body]

\* const response = await axios...: the answer of the upstream call
Received(q, answer) == [q EXCEPT !.response = answer]

\* the request issues an upstream call and is suspended on it
Await(q, pc, call) == [q EXCEPT !.pc = pc, !.calls = Append(@, call)]

Init ==
    /\ env \in SUBSET EnvNames
    /\ session = [jwtToken |-> JsNull, feedToken |-> JsNull,
                  refreshToken |-> JsNull, profile |-> [k |-> "null", name |-> JsUndef,
                                                        clientcode |-> JsUndef]]
    /\ reqs = [r \in Reqs |-> Idle]

\* requests come one at a time: a request arrives when none is in flight
NoneInFlight == \A r \in Reqs : reqs[r].pc = "idle"

\* a variant of requireLogin that tests session.jwtToken === null
RequireLoginRejectsNullOnly == StrictEq(session.jwtToken, JsNull)

\* const requireLogin = (req, res, next) => ...
RequireLoginRejects == ~Truthy(session.jwtToken)

Unauthorized(q, route) ==
    Respond([q EXCEPT !.route = route], 401, [t |-> "message"])

(***************************************************************************)
(* getHistoricalData (src/index.js): the answer of the upstream call to    *)
(* the value returned, or a throw                                          *)
(***************************************************************************)
Threw == [threw |-> TRUE, v |-> HNull]
Returned(x) == [threw |-> FALSE, v |-> x]

\* return response.data.data inside the try: reading .data of an empty
\* response.data throws, and every throw is rethrown as a new Error
getHistoricalData(answer) ==
    IF answer.o = "ok" THEN Returned(answer.data) ELSE Threw

\* !candles || candles.length === 0
NoCandles(v) == v.k \in {"null", "undef"} \/ (v.k = "arr" /\ Len(v.a) = 0)
\* prevDayCandles && prevDayCandles.length > 0
HasCandles(v) == v.k = "arr" /\ Len(v.a) > 0

(***************************************************************************)
(* POST /api/stock-analysis (src/index.js)                                 *)
(***************************************************************************)
\* netChange = 0; percentChange = 0
ZeroChange(q) == [q EXCEPT !.netChange = Num(0), !.percentChange = Num(0)]

\* a variant of Change that takes the percentage of the current price
\* instead of the previous close
ChangeOfCurrent(q, prev) ==
    LET net == JsSub(q.currentPrice, prev)
    IN  [q EXCEPT !.netChange = net,
                  !.percentChange = JsMul(JsDiv(net, q.currentPrice), Num(100))]

\* netChange = currentPrice - prev; percentChange = (netChange / prev) * 100
Change(q, prev) ==
    LET net == JsSub(q.currentPrice, prev)
    IN  [q EXCEPT !.netChange = net,
                  !.percentChange = JsMul(JsDiv(net, prev), Num(100))]

\* if (previousTradingDayClose !== null && previousTradingDayClose !== 0)
LiveChange(q) ==
    IF ~StrictEq(q.previousTradingDayClose, JsNull)
         /\ ~StrictEq(q.previousTradingDayClose, Num(0))
    THEN Change(q, q.previousTradingDayClose)
    ELSE ZeroChange(q)

\* a variant of FallbackPrice that reads the series from its old end:
\* closingPrices[0] and closingPrices[1]
FallbackPriceOldest(q) ==
    LET n == Len(q.closingPrices)
        f == [q EXCEPT !.fallback = TRUE]
    IN  IF n > 0
        THEN LET g == [f EXCEPT !.currentPrice = q.closingPrices[1]]
             IN  IF n > 1
                 THEN IF ~StrictEq(q.closingPrices[2], Num(0))
                      THEN Change(g, q.closingPrices[2])
                      ELSE ZeroChange(g)
                 ELSE ZeroChange(g)
        ELSE f

\* a variant of FallbackPrice that wants two closes before it sets a price
FallbackPriceNeedsTwo(q) ==
    LET n == Len(q.closingPrices)
        f == [q EXCEPT !.fallback = TRUE]
    IN  IF n > 1
        THEN LET g == [f EXCEPT !.currentPrice = q.closingPrices[n]]
             IN  IF ~StrictEq(q.closingPrices[n - 1], Num(0))
                 THEN Change(g, q.closingPrices[n - 1])
                 ELSE ZeroChange(g)
        ELSE f

\* catch (quoteError) { ... }: the last closes of the one-year series
FallbackPrice(q) ==
    LET n == Len(q.closingPrices)
        f == [q EXCEPT !.fallback = TRUE]
    IN  IF n > 0
        THEN LET g == [f EXCEPT !.currentPrice = q.closingPrices[n]]
             IN  IF n > 1
                 THEN IF ~StrictEq(q.closingPrices[n - 1], Num(0))
                      THEN Change(g, q.closingPrices[n - 1])
                      ELSE ZeroChange(g)
                 ELSE ZeroChange(g)
        ELSE f

\* rsi.length > 0 ? rsi[rsi.length - 1] : null
LastOrNull(arr) == IF arr.len > 0 THEN arr.last ELSE JsNull

\* res.json({currentPrice, netChange, percentChange, rsi, dma20, dma50, dma200})
SendAnalysis(q) ==
    Respond(q, 200,
        [t |-> "analysis", currentPrice |-> q.currentPrice,
         netChange |-> q.netChange, percentChange |-> q.percentChange,
         rsi |-> LastOrNull(q.rsi), dma20 |-> LastOrNull(q.sma20),
         dma50 |-> LastOrNull(q.sma50), dma200 |-> LastOrNull(q.sma200)])

\* closingPrices.length >= period ? X.calculate(...) : []
Guarded(values, period, arr) == IF Len(values) >= period THEN arr ELSE NoValues

\* a variant of WithIndicators whose averages shrink their window to the
\* closes there are instead of staying empty
ShrunkPeriod(closes, period) == IF Len(closes) < period THEN Len(closes) ELSE period
WithIndicatorsShrunk(q, closes) ==
    [q EXCEPT !.closingPrices = closes,
              !.rsi = Guarded(closes, RSI_PERIOD, RSI(closes, RSI_PERIOD)),
              !.sma20 = SMA(closes, ShrunkPeriod(closes, SMA20_PERIOD)),
              !.sma50 = SMA(closes, ShrunkPeriod(closes, SMA50_PERIOD)),
              !.sma200 = SMA(closes, ShrunkPeriod(closes, SMA200_PERIOD))]

\* the indicator arrays of lines 157-160
WithIndicators(q, closes) ==
    [q EXCEPT !.closingPrices = closes,
              !.rsi = Guarded(closes, RSI_PERIOD, RSI(closes, RSI_PERIOD)),
              !.sma20 = Guarded(closes, SMA20_PERIOD, SMA(closes, SMA20_PERIOD)),
              !.sma50 = Guarded(closes, SMA50_PERIOD, SMA(closes, SMA50_PERIOD)),
              !.sma200 = Guarded(closes, SMA200_PERIOD, SMA(closes, SMA200_PERIOD))]

\* the single-day fetch of the day `day` days before today
ProbeCall(day) == Call("candles.day", session.jwtToken, day)

\* requireLogin, then the handler up to the one-year getHistoricalData
StockAnalysisStart(r) ==
    /\ reqs[r].pc = "idle"
    /\ reqs' = [reqs EXCEPT ![r] =
          IF RequireLoginRejects THEN Unauthorized(@, "stock-analysis")
          ELSE Await([@ EXCEPT !.route = "stock-analysis"], "candles",
                     Call("candles.year", session.jwtToken, 0))]
    /\ UNCHANGED <<env, session>>

\* a variant of AnalysisAfterCandles that answers 404 for null only and lets
\* an empty series through
AnalysisAfterCandlesEmptyPasses(p, answer) ==
    LET ret == getHistoricalData(answer)
        q == Received(p, answer)
    IN  IF ret.threw THEN Respond(q, 500, [t |-> "error"])
        ELSE IF ret.v.k \in {"null", "undef"}
        THEN Respond([q EXCEPT !.candles = ret.v], 404, [t |-> "message"])
        ELSE IF ret.v.k # "arr"
        THEN Respond([q EXCEPT !.candles = ret.v], 500, [t |-> "error"])
        ELSE Await(WithIndicators([q EXCEPT !.candles = ret.v], ret.v.a), "quote",
                   Call("quote.LTP", session.jwtToken, 0))

\* a variant of AnalysisAfterCandles that asks for the one-year candles a
\* second time when the first fetch fails
AnalysisAfterCandlesRetry(p, answer) ==
    LET ret == getHistoricalData(answer)
        q == Received(p, answer)
    IN  IF ret.threw
        THEN IF Len(q.calls) < 2
             THEN Await(q, "candles", Call("candles.year", session.jwtToken, 0))
             ELSE Respond(q, 500, [t |-> "error"])
        ELSE IF NoCandles(ret.v)
        THEN Respond([q EXCEPT !.candles = ret.v], 404, [t |-> "message"])
        ELSE IF ret.v.k # "arr"
        THEN Respond([q EXCEPT !.candles = ret.v], 500, [t |-> "error"])
        ELSE Await(WithIndicators([q EXCEPT !.candles = ret.v], ret.v.a), "quote",
                   Call("quote.LTP", session.jwtToken, 0))

\* after the one-year candles: the 404, the indicators, the getQuote call
AnalysisAfterCandles(p, answer) ==
    LET ret == getHistoricalData(answer)
        q == Received(p, answer)
    IN  IF ret.threw THEN Respond(q, 500, [t |-> "error"])
        ELSE IF NoCandles(ret.v)
        THEN Respond([q EXCEPT !.candles = ret.v], 404, [t |-> "message"])
        ELSE IF ret.v.k # "arr"
        THEN Respond([q EXCEPT !.candles = ret.v], 500, [t |-> "error"])
        ELSE Await(WithIndicators([q EXCEPT !.candles = ret.v], ret.v.a), "quote",
                   Call("quote.LTP", session.jwtToken, 0))

StockAnalysisCandles(r) ==
    /\ reqs[r].pc = "candles"
    /\ reqs[r].route = "stock-analysis"
    /\ \E answer \in YearAnswers :
          reqs' = [reqs EXCEPT ![r] = AnalysisAfterCandles(@, answer)]
    /\ UNCHANGED <<env, session>>

\* liveData && liveData.ltp !== undefined && liveData.ltp !== null
ValidLtp(answer) ==
    /\ answer.o = "ok"
    /\ answer.has
    /\ ~StrictEq(answer.ltp, JsUndef)
    /\ ~StrictEq(answer.ltp, JsNull)

\* after the live quote: the first previous-day fetch, or the catch block
AnalysisAfterQuote(q, answer) ==
    IF ValidLtp(answer)
    THEN Await([q EXCEPT !.quoteResponse = answer,
                         !.currentPrice = answer.ltp, !.i = 0],
               "probe", ProbeCall(1))
    ELSE SendAnalysis(FallbackPrice([q EXCEPT !.quoteResponse = answer]))

StockAnalysisQuote(r) ==
    /\ reqs[r].pc = "quote"
    /\ reqs[r].route = "stock-analysis"
    /\ \E answer \in QuoteAnswers :
          reqs' = [reqs EXCEPT ![r] = AnalysisAfterQuote(@, answer)]
    /\ UNCHANGED <<env, session>>

\* a variant of AnalysisAfterProbe whose previous-day fetches stand outside
\* the inner try, so that a failed fetch reaches the outer catch
AnalysisAfterProbeUncaught(p, answer) ==
    LET ret == getHistoricalData(answer)
        q == Received(p, answer)
    IN  IF ret.threw THEN Respond(q, 500, [t |-> "error"])
        ELSE IF HasCandles(ret.v)
        THEN SendAnalysis(LiveChange([q EXCEPT !.previousTradingDayClose = ret.v.a[1]]))
        ELSE IF q.i + 1 < MAX_LOOKBACK
        THEN Await([q EXCEPT !.i = q.i + 1], "probe", ProbeCall(q.i + 2))
        ELSE SendAnalysis(LiveChange([q EXCEPT !.i = q.i + 1]))

\* a variant of AnalysisAfterProbe that forgets to step previousTradingDay
\* back: every fetch asks for yesterday
AnalysisAfterProbeSameDay(p, answer) ==
    LET ret == getHistoricalData(answer)
        q == Received(p, answer)
    IN  IF ret.threw THEN SendAnalysis(FallbackPrice(q))
        ELSE IF HasCandles(ret.v)
        THEN SendAnalysis(LiveChange([q EXCEPT !.previousTradingDayClose = ret.v.a[1]]))
        ELSE IF q.i + 1 < MAX_LOOKBACK
        THEN Await([q EXCEPT !.i = q.i + 1], "probe", ProbeCall(1))
        ELSE SendAnalysis(LiveChange([q EXCEPT !.i = q.i + 1]))

\* one turn of the loop for (let i = 0; i < 5; i++) after its await
AnalysisAfterProbe(p, answer) ==
    LET ret == getHistoricalData(answer)
        q == Received(p, answer)
    IN  IF ret.threw THEN SendAnalysis(FallbackPrice(q))
        ELSE IF HasCandles(ret.v)
        THEN SendAnalysis(LiveChange([q EXCEPT !.previousTradingDayClose = ret.v.a[1]]))
        ELSE IF q.i + 1 < MAX_LOOKBACK
        THEN Await([q EXCEPT !.i = q.i + 1], "probe", ProbeCall(q.i + 2))
        ELSE SendAnalysis(LiveChange([q EXCEPT !.i = q.i + 1]))

StockAnalysisProbe(r) ==
    /\ reqs[r].pc = "probe"
    /\ reqs[r].route = "stock-analysis"
    /\ \E answer \in DayAnswers :
          reqs' = [reqs EXCEPT ![r] = AnalysisAfterProbe(@, answer)]
    /\ UNCHANGED <<env, session>>

\* the response has been sent: the slot is free again
Finish(r) ==
    /\ reqs[r].pc = "done"
    /\ reqs' = [reqs EXCEPT ![r] = Idle]
    /\ UNCHANGED <<env, session>>

(***************************************************************************)
(* POST /api/login (src/index.js)                                          *)
(***************************************************************************)
\* the logins the upstream can grant, each with its own three tokens
LoginIds == {"A", "B"}
Token(kind, id) == Str(kind \o id)

\* loginResponse.data.data: null, or the object with the tokens
NoTokens == [has |-> FALSE, jwtToken |-> JsUndef, feedToken |-> JsUndef,
             refreshToken |-> JsUndef]
Tokens(id) == [has |-> TRUE, jwtToken |-> Token("jwt", id),
               feedToken |-> Token("feed", id), refreshToken |-> Token("refresh", id)]
\* a data object that carries no token fields
EmptyTokens == [NoTokens EXCEPT !.has = TRUE]

\* a failed axios call: without a response (network), with a response
\* whose body has a message (http), with a response whose data is null or
\* undefined (httpNoData)
ErrKinds == {"network", "http", "httpNoData"}

LErr(kind) == [o |-> "error", err |-> kind, status |-> FALSE, data |-> NoTokens]
LNoBody == [o |-> "nobody", err |-> "", status |-> FALSE, data |-> NoTokens]
LData(status, data) == [o |-> "ok", err |-> "", status |-> status, data |-> data]

LoginAnswers ==
    {LErr(e) : e \in ErrKinds} \cup {LNoBody, LData(FALSE, NoTokens), LData(TRUE, NoTokens),
                                     LData(TRUE, EmptyTokens)}
        \cup {LData(TRUE, Tokens(id)) : id \in LoginIds}

\* session.profile: null, or the profile object
NoProfile == [k |-> "null", name |-> JsUndef, clientcode |-> JsUndef]
Profile(name, clientcode) == [k |-> "obj", name |-> name, clientcode |-> clientcode]

PErr(kind) == [o |-> "error", err |-> kind, data |-> NoProfile]
PNoBody == [o |-> "nobody", err |-> "", data |-> NoProfile]
PData(profile) == [o |-> "ok", err |-> "", data |-> profile]

ProfileAnswers ==
    {PErr(e) : e \in ErrKinds}
        \cup {PNoBody, PData(NoProfile), PData(Profile(JsUndef, JsUndef)),
              PData(Profile(Str("user"), Str("C1")))}

\* the catch block of the login handler: error.response.data.message of a
\* response without body throws again, and then nothing answers the request
LoginCatch(q, kind) ==
    IF kind = "httpNoData" THEN [q EXCEPT !.pc = "unhandled"]
    ELSE Respond(q, 500, [t |-> "error", status |-> FALSE])

\* a || b
JsOr(a, b) == IF Truthy(a) THEN a ELSE b

\* a variant of the credentials check that forgets the TOTP secret
CredentialsMissingNoTotp == ~((LoginCreds \ {"ANGEL_TOTP_SECRET"}) \subseteq env)

\* !ANGEL_API_KEY || !ANGEL_CLIENT_ID || !ANGEL_PASSWORD || !ANGEL_TOTP_SECRET
CredentialsMissing == ~(LoginCreds \subseteq env)

LoginStart(r) ==
    /\ reqs[r].pc = "idle"
    /\ reqs' = [reqs EXCEPT ![r] =
          IF CredentialsMissing
          THEN Respond([@ EXCEPT !.route = "login"], 500, [t |-> "message"])
          ELSE Await([@ EXCEPT !.route = "login"], "login",
                     Call("loginByPassword", JsUndef, 0))]
    /\ UNCHANGED <<env, session>>

\* a variant of SessionAfterLogin that logs the session out when the
\* upstream refuses the login
SessionAfterLoginClearsOnRefusal(ses, answer) ==
    IF answer.o = "ok" /\ answer.status /\ answer.data.has
    THEN [ses EXCEPT !.jwtToken = answer.data.jwtToken,
                     !.feedToken = answer.data.feedToken,
                     !.refreshToken = answer.data.refreshToken]
    ELSE IF answer.o = "ok" /\ ~answer.status
    THEN [ses EXCEPT !.jwtToken = JsNull, !.feedToken = JsNull, !.refreshToken = JsNull]
    ELSE ses

\* a variant of SessionAfterLogin that keeps a feed token the session
\* already has
SessionAfterLoginKeepsFeed(ses, answer) ==
    IF answer.o = "ok" /\ answer.status /\ answer.data.has
    THEN [ses EXCEPT !.jwtToken = answer.data.jwtToken,
                     !.feedToken = IF Truthy(ses.feedToken) THEN ses.feedToken
                                   ELSE answer.data.feedToken,
                     !.refreshToken = answer.data.refreshToken]
    ELSE ses

\* session.jwtToken = ...; session.feedToken = ...; session.refreshToken = ...
SessionAfterLogin(ses, answer) ==
    IF answer.o = "ok" /\ answer.status /\ answer.data.has
    THEN [ses EXCEPT !.jwtToken = answer.data.jwtToken,
                     !.feedToken = answer.data.feedToken,
                     !.refreshToken = answer.data.refreshToken]
    ELSE ses

\* after loginByPassword
LoginAfterLogin(p, answer) ==
    LET q == Received(p, answer)
    IN  IF answer.o = "error" THEN LoginCatch(q, answer.err)
        ELSE IF answer.o = "nobody" THEN Respond(q, 500, [t |-> "error", status |-> FALSE])
        ELSE IF ~answer.status THEN Respond(q, 401, [t |-> "message", status |-> FALSE])
        ELSE IF ~answer.data.has THEN Respond(q, 500, [t |-> "error", status |-> FALSE])
        ELSE Await(q, "profile", Call("getProfile", answer.data.jwtToken, 0))

LoginResponse(r) ==
    /\ reqs[r].pc = "login"
    /\ reqs[r].route = "login"
    /\ \E answer \in LoginAnswers :
          /\ reqs' = [reqs EXCEPT ![r] = LoginAfterLogin(@, answer)]
          /\ session' = SessionAfterLogin(session, answer)
    /\ UNCHANGED env

\* (profileResponse.data && profileResponse.data.data) ? ... : {}
ProfileOf(answer) ==
    IF answer.o = "ok" /\ answer.data.k = "obj" THEN answer.data
    ELSE Profile(JsUndef, JsUndef)

\* after getProfile
LoginAfterProfile(p, answer) ==
    LET q == Received(p, answer)
    IN  IF answer.o = "error" THEN LoginCatch(q, answer.err)
        ELSE Respond(q, 200,
                [t |-> "login", status |-> TRUE,
                 data |-> [name |-> JsOr(ProfileOf(answer).name, Str("N/A"))]])

LoginProfile(r) ==
    /\ reqs[r].pc = "profile"
    /\ reqs[r].route = "login"
    /\ \E answer \in ProfileAnswers :
          /\ reqs' = [reqs EXCEPT ![r] = LoginAfterProfile(@, answer)]
          /\ session' = IF answer.o = "error" THEN session
                        ELSE [session EXCEPT !.profile = ProfileOf(answer)]
    /\ UNCHANGED env

(***************************************************************************)
(* POST /api/login of src/unnamed/part_002, 74-119: session.profile is     *)
(* profileResponse.data.data as it is, and the answer carries name and     *)
(* clientcode                                                              *)
(***************************************************************************)
LoginClientcodeStart(r) ==
    /\ reqs[r].pc = "idle"
    /\ reqs' = [reqs EXCEPT ![r] =
          IF CredentialsMissing
          THEN Respond([@ EXCEPT !.route = "login.clientcode"], 500, [t |-> "message"])
          ELSE Await([@ EXCEPT !.route = "login.clientcode"], "login",
                     Call("loginByPassword", JsUndef, 0))]
    /\ UNCHANGED <<env, session>>

LoginClientcodeResponse(r) ==
    /\ reqs[r].pc = "login"
    /\ reqs[r].route = "login.clientcode"
    /\ \E answer \in LoginAnswers :
          /\ reqs' = [reqs EXCEPT ![r] = LoginAfterLogin(@, answer)]
          /\ session' = SessionAfterLogin(session, answer)
    /\ UNCHANGED env

\* after getProfile: session.profile.name of a null profile throws
LoginClientcodeAfterProfile(q, answer) ==
    IF answer.o = "error" THEN LoginCatch(q, answer.err)
    ELSE IF answer.o = "nobody" \/ answer.data.k # "obj"
    THEN Respond(q, 500, [t |-> "error", status |-> FALSE])
    ELSE Respond(q, 200,
            [t |-> "login", status |-> TRUE,
             data |-> [name |-> answer.data.name,
                       clientcode |-> answer.data.clientcode]])

LoginClientcodeProfile(r) ==
    /\ reqs[r].pc = "profile"
    /\ reqs[r].route = "login.clientcode"
    /\ \E answer \in ProfileAnswers :
          /\ reqs' = [reqs EXCEPT ![r] = LoginClientcodeAfterProfile(@, answer)]
          /\ session' = IF answer.o = "ok"
                        THEN [session EXCEPT !.profile = answer.data]
                        ELSE session
    /\ UNCHANGED env

(***************************************************************************)
(* POST /api/login of the proxy version (src/unnamed/part_000, 541-570):   *)
(* the credentials come in the body, only the API key is read from the     *)
(* environment, and the upstream answer is passed through                  *)
(***************************************************************************)
LoginProxyStart(r) ==
    /\ reqs[r].pc = "idle"
    /\ reqs' = [reqs EXCEPT ![r] =
          IF "ANGEL_API_KEY" \notin env
          THEN Respond([@ EXCEPT !.route = "login.proxy"], 500,
                       [t |-> "message", status |-> FALSE])
          ELSE Await([@ EXCEPT !.route = "login.proxy"], "login",
                     Call("loginByPassword", JsUndef, 0))]
    /\ UNCHANGED <<env, session>>

\* res.json(response.data), or the upstream's status (500 without one)
LoginProxyAfterLogin(q, answer) ==
    IF answer.o = "error"
    THEN Respond(q, IF answer.err = "network" THEN 500 ELSE 401,
                 [t |-> "error", status |-> FALSE])
    ELSE Respond(q, 200, [t |-> "passthrough", status |-> answer.status])

LoginProxyResponse(r) ==
    /\ reqs[r].pc = "login"
    /\ reqs[r].route = "login.proxy"
    /\ \E answer \in LoginAnswers :
          reqs' = [reqs EXCEPT ![r] = LoginProxyAfterLogin(@, answer)]
    /\ UNCHANGED <<env, session>>

(***************************************************************************)
(* POST /api/stock-analysis of the first version (src/unnamed/part_001,    *)
(* 340-378) and POST /api/technical-indicators (src/unnamed/part_002,      *)
(* 153-186): at least 200 candles or a 404, no price resolver              *)
(***************************************************************************)
\* requireLogin, then the handler up to the one-year getHistoricalData
IndicatorsStart(r, route) ==
    /\ reqs[r].pc = "idle"
    /\ reqs' = [reqs EXCEPT ![r] =
          IF RequireLoginRejects THEN Unauthorized(@, route)
          ELSE Await([@ EXCEPT !.route = route], "candles",
                     Call("candles.year", session.jwtToken, 0))]
    /\ UNCHANGED <<env, session>>

StockAnalysisV1Start(r) == IndicatorsStart(r, "stock-analysis.v1")

TechnicalIndicatorsStart(r) == IndicatorsStart(r, "technical-indicators")

\* !candles || candles.length < 200
TooFewCandles(v) ==
    v.k \in {"null", "undef"} \/ (v.k = "arr" /\ Len(v.a) < MIN_CANDLES_V1)

\* the indicator arrays, computed without a length check
WithIndicatorsV1(q, closes) ==
    [q EXCEPT !.closingPrices = closes,
              !.rsi = RSI(closes, RSI_PERIOD),
              !.sma20 = SMA(closes, SMA20_PERIOD),
              !.sma50 = SMA(closes, SMA50_PERIOD),
              !.sma200 = SMA(closes, SMA200_PERIOD)]

\* rsi[rsi.length - 1]
LastOf(arr) == IF arr.len > 0 THEN arr.last ELSE JsUndef

\* res.json({currentPrice, rsi, dma20, dma50, dma200})
SendIndicatorsV1(q, price) ==
    Respond([q EXCEPT !.currentPrice = price], 200,
        [t |-> "analysis", currentPrice |-> price,
         netChange |-> JsUndef, percentChange |-> JsUndef,
         rsi |-> LastOf(q.rsi), dma20 |-> LastOf(q.sma20),
         dma50 |-> LastOf(q.sma50), dma200 |-> LastOf(q.sma200)])

V1AfterCandles(q, answer) ==
    LET ret == getHistoricalData(answer)
    IN  IF ret.threw THEN Respond(q, 500, [t |-> "error"])
        ELSE IF TooFewCandles(ret.v)
        THEN Respond([q EXCEPT !.candles = ret.v], 404, [t |-> "message"])
        ELSE IF ret.v.k # "arr"
        THEN Respond([q EXCEPT !.candles = ret.v], 500, [t |-> "error"])
        ELSE Await(WithIndicatorsV1([q EXCEPT !.candles = ret.v], ret.v.a), "quote",
                   Call("quote.LTP", session.jwtToken, 0))

StockAnalysisV1Candles(r) ==
    /\ reqs[r].pc = "candles"
    /\ reqs[r].route = "stock-analysis.v1"
    /\ \E answer \in YearAnswers :
          reqs' = [reqs EXCEPT ![r] = V1AfterCandles(@, answer)]
    /\ UNCHANGED <<env, session>>

\* currentPrice: liveData.ltp, without a check of liveData
V1AfterQuote(q, answer) ==
    IF answer.o = "ok" /\ answer.has
    THEN SendIndicatorsV1([q EXCEPT !.quoteResponse = answer], answer.ltp)
    ELSE Respond([q EXCEPT !.quoteResponse = answer], 500, [t |-> "error"])

StockAnalysisV1Quote(r) ==
    /\ reqs[r].pc = "quote"
    /\ reqs[r].route = "stock-analysis.v1"
    /\ \E answer \in QuoteAnswers :
          reqs' = [reqs EXCEPT ![r] = V1AfterQuote(@, answer)]
    /\ UNCHANGED <<env, session>>

\* currentPrice: closingPrices[closingPrices.length - 1]
TechnicalAfterCandles(q, answer) ==
    LET ret == getHistoricalData(answer)
    IN  IF ret.threw THEN Respond(q, 500, [t |-> "error"])
        ELSE IF TooFewCandles(ret.v)
        THEN Respond([q EXCEPT !.candles = ret.v], 404, [t |-> "message"])
        ELSE IF ret.v.k # "arr"
        THEN Respond([q EXCEPT !.candles = ret.v], 500, [t |-> "error"])
        ELSE SendIndicatorsV1(WithIndicatorsV1([q EXCEPT !.candles = ret.v], ret.v.a),
                              ret.v.a[Len(ret.v.a)])

TechnicalIndicatorsCandles(r) ==
    /\ reqs[r].pc = "candles"
    /\ reqs[r].route = "technical-indicators"
    /\ \E answer \in YearAnswers :
          reqs' = [reqs EXCEPT ![r] = TechnicalAfterCandles(@, answer)]
    /\ UNCHANGED <<env, session>>

(***************************************************************************)
(* POST /api/historical-data (src/index.js)                                *)
(***************************************************************************)
HistoricalDataStart(r) ==
    /\ reqs[r].pc = "idle"
    /\ reqs' = [reqs EXCEPT ![r] =
          IF RequireLoginRejects THEN Unauthorized(@, "historical-data")
          ELSE Await([@ EXCEPT !.route = "historical-data"], "candles",
                     Call("candles.range", session.jwtToken, 0))]
    /\ UNCHANGED <<env, session>>

\* res.json(data), or the 500 of the catch
HistoricalAfterCandles(q, answer) ==
    LET ret == getHistoricalData(answer)
    IN  IF ret.threw THEN Respond(Received(q, answer), 500, [t |-> "message"])
        ELSE Respond(Received(q, answer), 200, [t |-> "candles", data |-> ret.v])

\* the answers of getCandleData for the range of the request
RangeAnswers ==
    {UpErr, UpNoBody, UpData(HNull), UpData(HUndef), UpData(HObj), UpData(HStr),
     UpData(HArr(<<>>)), UpData(HArr(<<Num(104), Num(107)>>))}

HistoricalDataCandles(r) ==
    /\ reqs[r].pc = "candles"
    /\ reqs[r].route = "historical-data"
    /\ \E answer \in RangeAnswers :
          reqs' = [reqs EXCEPT ![r] = HistoricalAfterCandles(@, answer)]
    /\ UNCHANGED <<env, session>>

(***************************************************************************)
(* getHistoricalData and POST /api/historical-data of the version of       *)
(* src/unnamed/part_000, 81-116 and 182-189                                *)
(***************************************************************************)
\* historicalData is response.data.data, or null without a response.data;
\* what is no array is returned as []
getHistoricalDataRobust(answer) ==
    IF answer.o = "error" THEN Threw
    ELSE IF answer.o = "ok" /\ answer.data.k = "arr" THEN Returned(answer.data)
    ELSE Returned(HArr(<<>>))

HistoricalRobustStart(r) ==
    /\ reqs[r].pc = "idle"
    /\ reqs' = [reqs EXCEPT ![r] =
          IF RequireLoginRejects THEN Unauthorized(@, "historical-data.robust")
          ELSE Await([@ EXCEPT !.route = "historical-data.robust"], "candles",
                     Call("candles.range", session.jwtToken, 0))]
    /\ UNCHANGED <<env, session>>

HistoricalRobustAfterCandles(q, answer) ==
    LET ret == getHistoricalDataRobust(answer)
    IN  IF ret.threw THEN Respond(Received(q, answer), 500, [t |-> "message"])
        ELSE Respond(Received(q, answer), 200, [t |-> "candles", data |-> ret.v])

HistoricalRobustCandles(r) ==
    /\ reqs[r].pc = "candles"
    /\ reqs[r].route = "historical-data.robust"
    /\ \E answer \in RangeAnswers :
          reqs' = [reqs EXCEPT ![r] = HistoricalRobustAfterCandles(@, answer)]
    /\ UNCHANGED <<env, session>>

(***************************************************************************)
(* GET /api/instruments (src/index.js)                                     *)
(***************************************************************************)
\* the longest instrument list the upstream returns
MaxInstr == 2

\* an entry of the scrip master: symbol is a string (its characters), or
\* missing
\* instrumenttype is "" for an entry that has none
Instrument(seg, symbol) ==
    [exch_seg |-> seg, hasSymbol |-> TRUE, symbol |-> symbol, instrumenttype |-> ""]
NoSymbol(seg) ==
    [exch_seg |-> seg, hasSymbol |-> FALSE, symbol |-> <<>>, instrumenttype |-> ""]
\* an entry with an instrument type
Typed(instrument, type) == [instrument EXCEPT !.instrumenttype = type]

Instruments ==
    {Instrument("NSE", <<"T", "-", "E", "Q">>), Instrument("NSE", <<"T", "-", "B", "E">>),
     Instrument("BSE", <<"T", "-", "E", "Q">>), Instrument("NSE", <<"E", "Q">>),
     NoSymbol("NSE"), NoSymbol("BSE"),
     Typed(Instrument("NSE", <<"A", "-", "E", "Q">>), "AMX")}

SeqsUpTo(S, n) == UNION {[1..m -> S] : m \in 0..n}

\* response.data of the scrip master: an array, or something else
IErr == [o |-> "error", isArray |-> FALSE, list |-> <<>>]
INotArray == [o |-> "ok", isArray |-> FALSE, list |-> <<>>]
IList(l) == [o |-> "ok", isArray |-> TRUE, list |-> l]

InstrumentAnswers == {IErr, INotArray} \cup {IList(l) : l \in SeqsUpTo(Instruments, MaxInstr)}

\* symbol.endsWith(suffix)
EndsWith(symbol, suffix) ==
    /\ Len(symbol) >= Len(suffix)
    /\ SubSeq(symbol, Len(symbol) - Len(suffix) + 1, Len(symbol)) = suffix

EqSuffix == <<"-", "E", "Q">>

\* instrument.exch_seg === 'NSE' && instrument.symbol.endsWith('-EQ')
IsNseEquity(instrument) ==
    instrument.exch_seg = "NSE" /\ EndsWith(instrument.symbol, EqSuffix)

\* the filter callback throws on an NSE entry without symbol
FilterThrows(list) ==
    \E j \in 1..Len(list) : list[j].exch_seg = "NSE" /\ ~list[j].hasSymbol

InstrumentsStart(r) ==
    /\ reqs[r].pc = "idle"
    /\ reqs' = [reqs EXCEPT ![r] =
          IF RequireLoginRejects THEN Unauthorized(@, "instruments")
          ELSE Await([@ EXCEPT !.route = "instruments"], "scripMaster",
                     Call("scripMaster", JsUndef, 0))]
    /\ UNCHANGED <<env, session>>

InstrumentsAfterList(q, answer) ==
    IF answer.o = "error" \/ ~answer.isArray \/ FilterThrows(answer.list)
    THEN Respond(Received(q, answer), 500, [t |-> "message"])
    ELSE Respond(Received(q, answer), 200,
                 [t |-> "instruments", isArray |-> TRUE,
                  list |-> SelectSeq(answer.list, IsNseEquity)])

InstrumentsList(r) ==
    /\ reqs[r].pc = "scripMaster"
    /\ reqs[r].route = "instruments"
    /\ \E answer \in InstrumentAnswers :
          reqs' = [reqs EXCEPT ![r] = InstrumentsAfterList(@, answer)]
    /\ UNCHANGED <<env, session>>

\* GET /api/instruments of the proxy version (src/unnamed/part_000,
\* 573-581): no requireLogin, and response.data is passed through
InstrumentsProxyStart(r) ==
    /\ reqs[r].pc = "idle"
    /\ reqs' = [reqs EXCEPT ![r] =
          Await([@ EXCEPT !.route = "instruments.proxy"], "scripMaster",
                Call("scripMaster", JsUndef, 0))]
    /\ UNCHANGED <<env, session>>

\* res.json(response.data)
InstrumentsProxyAfterList(q, answer) ==
    IF answer.o = "error"
    THEN Respond(Received(q, answer), 500, [t |-> "message"])
    ELSE Respond(Received(q, answer), 200,
                 [t |-> "instruments", isArray |-> answer.isArray, list |-> answer.list])

InstrumentsProxyList(r) ==
    /\ reqs[r].pc = "scripMaster"
    /\ reqs[r].route = "instruments.proxy"
    /\ \E answer \in InstrumentAnswers :
          reqs' = [reqs EXCEPT ![r] = InstrumentsProxyAfterList(@, answer)]
    /\ UNCHANGED <<env, session>>

\* GET /api/instruments of the version of src/unnamed/part_000, 689-700: no
\* requireLogin, and the filter also asks for instrumenttype === 'AMX'
InstrumentsAmxStart(r) ==
    /\ reqs[r].pc = "idle"
    /\ reqs' = [reqs EXCEPT ![r] =
          Await([@ EXCEPT !.route = "instruments.amx"], "scripMaster",
                Call("scripMaster", JsUndef, 0))]
    /\ UNCHANGED <<env, session>>

\* exch_seg === 'NSE' && instrumenttype === 'AMX' && symbol.endsWith('-EQ')
IsNseAmxEquity(instrument) ==
    /\ instrument.exch_seg = "NSE"
    /\ instrument.instrumenttype = "AMX"
    /\ EndsWith(instrument.symbol, EqSuffix)

\* the filter callback throws on an NSE AMX entry without symbol
AmxFilterThrows(list) ==
    \E j \in 1..Len(list) :
        list[j].exch_seg = "NSE" /\ list[j].instrumenttype = "AMX" /\ ~list[j].hasSymbol

InstrumentsAmxAfterList(q, answer) ==
    IF answer.o = "error" \/ ~answer.isArray \/ AmxFilterThrows(answer.list)
    THEN Respond(Received(q, answer), 500, [t |-> "message"])
    ELSE Respond(Received(q, answer), 200,
                 [t |-> "instruments", isArray |-> TRUE,
                  list |-> SelectSeq(answer.list, IsNseAmxEquity)])

InstrumentsAmxList(r) ==
    /\ reqs[r].pc = "scripMaster"
    /\ reqs[r].route = "instruments.amx"
    /\ \E answer \in InstrumentAnswers :
          reqs' = [reqs EXCEPT ![r] = InstrumentsAmxAfterList(@, answer)]
    /\ UNCHANGED <<env, session>>

(***************************************************************************)
(* The endpoints that call the AI text-generation API                      *)
(***************************************************************************)
\* req.body.companyName: missing, empty or a name
CompanyNames == {JsUndef, Str(""), Str("ACME")}

\* the AI API's answer: the call fails, the answer has no candidates with
\* parts, or it carries a text that is JSON or not
GeminiAnswers == {"error", "malformed", "json", "text"}

\* the public AI endpoints of src/unnamed/part_001 (69-186) and
\* src/unnamed/part_002 (224-265): the key check comes first
AiRoutes == {"company-details", "company-details.json", "chart-data",
             "technical-indicators.ai"}

\* the routes that JSON.parse the generated text
ParsingRoutes == AiRoutes \ {"company-details"}

\* a variant of AiReceive without the check of companyName
AiReceiveUnchecked(q, route, companyName) ==
    LET n == [q EXCEPT !.route = route, !.companyName = companyName]
    IN  IF "GEMINI_API_KEY" \notin env THEN Respond(n, 500, [t |-> "message"])
        ELSE Await(n, "gemini", Call("generateContent", JsUndef, 0))

\* the key check, then the body check, then the generateContent call
AiReceive(q, route, companyName) ==
    LET n == [q EXCEPT !.route = route, !.companyName = companyName]
    IN  IF "GEMINI_API_KEY" \notin env THEN Respond(n, 500, [t |-> "message"])
        ELSE IF ~Truthy(companyName) THEN Respond(n, 400, [t |-> "message"])
        ELSE Await(n, "gemini", Call("generateContent", JsUndef, 0))

AiStart(r) ==
    /\ reqs[r].pc = "idle"
    /\ \E route \in AiRoutes, companyName \in CompanyNames :
          reqs' = [reqs EXCEPT ![r] = AiReceive(@, route, companyName)]
    /\ UNCHANGED <<env, session>>

AiAfterGenerate(q, answer) ==
    IF answer = "json" \/ (answer = "text" /\ q.route \notin ParsingRoutes)
    THEN Respond(q, 200, [t |-> "generated"])
    ELSE Respond(q, 500, [t |-> "message"])

AiGenerated(r) ==
    /\ reqs[r].pc = "gemini"
    /\ reqs[r].route \in AiRoutes
    /\ \E answer \in GeminiAnswers :
          reqs' = [reqs EXCEPT ![r] = AiAfterGenerate(@, answer)]
    /\ UNCHANGED <<env, session>>

\* POST /api/generate-news-summary (src/index.js): requireLogin, then the
\* body check, then the key check
NewsSummaryReceive(q, companyName) ==
    LET n == [q EXCEPT !.route = "generate-news-summary", !.companyName = companyName]
    IN  IF RequireLoginRejects THEN Unauthorized(n, "generate-news-summary")
        ELSE IF ~Truthy(companyName) THEN Respond(n, 400, [t |-> "message"])
        ELSE IF "GEMINI_API_KEY" \notin env THEN Respond(n, 500, [t |-> "message"])
        ELSE Await(n, "gemini", Call("generateContent", JsUndef, 0))

NewsSummaryStart(r) ==
    /\ reqs[r].pc = "idle"
    /\ \E companyName \in CompanyNames :
          reqs' = [reqs EXCEPT ![r] = NewsSummaryReceive(@, companyName)]
    /\ UNCHANGED <<env, session>>

\* the text of the first candidate is sent as it is
NewsSummaryAfterGenerate(q, answer) ==
    IF answer \in {"json", "text"} THEN Respond(q, 200, [t |-> "generated"])
    ELSE Respond(q, 500, [t |-> "message"])

NewsSummaryGenerated(r) ==
    /\ reqs[r].pc = "gemini"
    /\ reqs[r].route = "generate-news-summary"
    /\ \E answer \in GeminiAnswers :
          reqs' = [reqs EXCEPT ![r] = NewsSummaryAfterGenerate(@, answer)]
    /\ UNCHANGED <<env, session>>

\* GET /api/market-news (src/unnamed/part_001, 43-64): the key check, then
\* the generateContent call
MarketNewsStart(r) ==
    /\ reqs[r].pc = "idle"
    /\ reqs' = [reqs EXCEPT ![r] =
          IF "GEMINI_API_KEY" \notin env
          THEN Respond([@ EXCEPT !.route = "market-news"], 500, [t |-> "message"])
          ELSE Await([@ EXCEPT !.route = "market-news"], "gemini",
                     Call("generateContent", JsUndef, 0))]
    /\ UNCHANGED <<env, session>>

\* GET /api/market-news of the version of src/unnamed/part_000, 706-731:
\* const apiKey = "" and no check of the environment before the call
MarketNewsKeylessStart(r) ==
    /\ reqs[r].pc = "idle"
    /\ reqs' = [reqs EXCEPT ![r] =
          Await([@ EXCEPT !.route = "market-news.keyless"], "gemini",
                Call("generateContent", JsUndef, 0))]
    /\ UNCHANGED <<env, session>>

\* res.json({ news: newsText }), or the 500 of the catch
MarketNewsAfterGenerate(q, answer) ==
    IF answer \in {"json", "text"} THEN Respond(q, 200, [t |-> "generated"])
    ELSE Respond(q, 500, [t |-> "message"])

MarketNewsGenerated(r) ==
    /\ reqs[r].pc = "gemini"
    /\ reqs[r].route \in {"market-news", "market-news.keyless"}
    /\ \E answer \in GeminiAnswers :
          reqs' = [reqs EXCEPT ![r] = MarketNewsAfterGenerate(@, answer)]
    /\ UNCHANGED <<env, session>>

(***************************************************************************)
(* GET /api/market-data (src/index.js)                                     *)
(***************************************************************************)
\* the longest OHLC quote list the upstream returns
MaxItems == 2
\* the longest FULL quote list the upstream returns
MaxQuotes == 3

indexTokensNSE == {"26000", "26009"}
indexTokensBSE == {"26037"}
nifty50Tokens == {"2885", "11536", "1594", "3456", "1333", "5258", "10940", "3045",
                  "1660", "1394"}

\* an entry of a getQuote answer; ohlc is missing when hasOhlc is false
Quote(token, ltp, net, pct, hasOhlc, close) ==
    [symbolToken |-> token, ltp |-> ltp, netChange |-> net, percentChange |-> pct,
     hasOhlc |-> hasOhlc, close |-> close]

\* entries of a FULL answer
FullQuotes ==
    {Quote("26000", Num(110), Num(1), Num(1), TRUE, Num(109)),
     Quote("2885", Num(110), Num(2), Num(2), TRUE, Num(108)),
     Quote("11536", Num(110), Num(3), Num(3), TRUE, Num(107)),
     Quote("1594", Num(110), JsUndef, JsUndef, TRUE, Num(107)),
     Quote("777", JsUndef, JsUndef, JsUndef, TRUE, Num(107))}

\* entries of an OHLC answer
OhlcQuotes ==
    {Quote("26000", JsUndef, JsUndef, JsUndef, TRUE, Num(109)),
     Quote("2885", JsUndef, JsUndef, JsUndef, TRUE, Num(108)),
     Quote("11536", JsUndef, JsUndef, JsUndef, FALSE, JsUndef)}

\* a getQuote answer: the call fails, response.data is empty, or
\* response.data.data is a list or something that is no array
MErr == [o |-> "error", isArray |-> FALSE, list |-> <<>>]
MNoBody == [o |-> "nobody", isArray |-> FALSE, list |-> <<>>]
MNotArray == [o |-> "ok", isArray |-> FALSE, list |-> <<>>]
MList(l) == [o |-> "ok", isArray |-> TRUE, list |-> l]

FullAnswers == {MErr, MNoBody, MNotArray} \cup {MList(l) : l \in SeqsUpTo(FullQuotes, MaxQuotes)}
OhlcAnswers == {MErr, MNoBody, MNotArray} \cup {MList(l) : l \in SeqsUpTo(OhlcQuotes, MaxItems)}

\* quoteResponse.data && Array.isArray(quoteResponse.data.data)
\*   && quoteResponse.data.data.length > 0 && quoteResponse.data.data[0].ltp !== undefined
IsLive(answer) ==
    /\ answer.o = "ok"
    /\ answer.isArray
    /\ Len(answer.list) > 0
    /\ ~StrictEq(answer.list[1].ltp, JsUndef)

\* {name, symbol, price, change, percentChange} of a stock
Performer(stock) ==
    [symbolToken |-> stock.symbolToken, price |-> stock.ltp,
     change |-> stock.netChange, percentChange |-> stock.percentChange]

\* the comparator (a, b) => b.percentChange - a.percentChange is negative
Before(a, b) == JsGt(a.percentChange, b.percentChange)

RECURSIVE Insert(_, _)
\* x put into the sorted list, after the entries it is not before
Insert(list, x) ==
    IF Len(list) = 0 THEN <<x>>
    ELSE IF Before(x, list[Len(list)])
    THEN Append(Insert(SubSeq(list, 1, Len(list) - 1), x), list[Len(list)])
    ELSE Append(list, x)

RECURSIVE Sort(_)
\* Array.prototype.sort with that comparator (stable)
Sort(list) ==
    IF Len(list) = 0 THEN <<>>
    ELSE Insert(Sort(SubSeq(list, 1, Len(list) - 1)), list[Len(list)])

IsIndex(d) == d.symbolToken \in indexTokensNSE \/ d.symbolToken \in indexTokensBSE
IsTopStock(d) == d.symbolToken \in nifty50Tokens

RECURSIVE Map(_, _)
Map(list, j) ==
    IF j > Len(list) THEN <<>> ELSE <<Performer(list[j])>> \o Map(list, j + 1)

\* .slice(0, 10)
Slice10(list) == SubSeq(list, 1, IF Len(list) < 10 THEN Len(list) ELSE 10)

\* res.json({ indices, topPerformers })
SendMarketData(q) ==
    Respond(q, 200,
        [t |-> "market", indices |-> SelectSeq(q.quoteData, IsIndex),
         topPerformers |-> Slice10(Sort(Map(SelectSeq(q.quoteData, IsTopStock), 1)))])

MarketDataStart(r) ==
    /\ reqs[r].pc = "idle"
    /\ reqs' = [reqs EXCEPT ![r] =
          IF RequireLoginRejects THEN Unauthorized(@, "market-data")
          ELSE Await([@ EXCEPT !.route = "market-data"], "full",
                     Call("quote.FULL", session.jwtToken, 0))]
    /\ UNCHANGED <<env, session>>

\* after the FULL quote: the live data, or the OHLC call of the catch
MarketAfterFull(q, answer) ==
    IF IsLive(answer)
    THEN SendMarketData([q EXCEPT !.quoteData = answer.list])
    ELSE Await([q EXCEPT !.fallback = TRUE],
               "ohlc", Call("quote.OHLC", session.jwtToken, 0))

MarketDataFull(r) ==
    /\ reqs[r].pc = "full"
    /\ \E answer \in FullAnswers :
          reqs' = [reqs EXCEPT ![r] = MarketAfterFull(@, answer)]
    /\ UNCHANGED <<env, session>>

\* the entry pushed for an item: its close against the previous close
Pushed(item, previousClose) ==
    LET net == IF ~StrictEq(previousClose, JsNull)
               THEN JsSub(item.close, previousClose) ELSE Num(0)
    IN  [item EXCEPT
           !.ltp = item.close,
           !.netChange = net,
           !.percentChange =
               IF ~StrictEq(previousClose, JsNull) /\ ~StrictEq(previousClose, Num(0))
               THEN JsMul(JsDiv(net, previousClose), Num(100)) ELSE Num(0)]

\* the item loop from item k on: the first previous-day fetch of the next
\* item, or the response after the last one
MarketNextItem(q, k) ==
    IF k > Len(q.ohlcRawData) THEN SendMarketData([q EXCEPT !.k = k])
    ELSE Await([q EXCEPT !.k = k, !.i = 0, !.previousClose = JsNull],
               "itemProbe", ProbeCall(1))

\* after the OHLC quote
MarketAfterOhlc(q, answer) ==
    IF answer.o # "ok" THEN Respond(q, 500, [t |-> "error"])
    ELSE MarketNextItem([q EXCEPT !.ohlcRawData =
                            IF answer.isArray THEN answer.list ELSE <<>>], 1)

MarketDataOhlc(r) ==
    /\ reqs[r].pc = "ohlc"
    /\ \E answer \in OhlcAnswers :
          reqs' = [reqs EXCEPT ![r] = MarketAfterOhlc(@, answer)]
    /\ UNCHANGED <<env, session>>

\* const currentClose = item.ohlc.close; ...; quoteData.push({...})
MarketPush(q) ==
    LET item == q.ohlcRawData[q.k]
    IN  IF ~item.hasOhlc THEN Respond(q, 500, [t |-> "error"])
        ELSE MarketNextItem(
                [q EXCEPT !.quoteData = Append(@, Pushed(item, q.previousClose))],
                q.k + 1)

\* one turn of the previous-close loop of item k after its await
MarketAfterProbe(p, answer) ==
    LET ret == getHistoricalData(answer)
        q == Received(p, answer)
    IN  IF ret.threw THEN Respond(q, 500, [t |-> "error"])
        ELSE IF HasCandles(ret.v)
        THEN MarketPush([q EXCEPT !.previousClose = ret.v.a[1]])
        ELSE IF q.i + 1 < MAX_LOOKBACK
        THEN Await([q EXCEPT !.i = q.i + 1], "itemProbe", ProbeCall(q.i + 2))
        ELSE MarketPush([q EXCEPT !.i = q.i + 1])

\* the single-day answers of the item loop
ItemDayAnswers ==
    {UpErr, UpData(HArr(<<>>)), UpData(HArr(<<Num(0)>>)), UpData(HArr(<<Num(104)>>))}

MarketDataProbe(r) ==
    /\ reqs[r].pc = "itemProbe"
    /\ \E answer \in ItemDayAnswers :
          reqs' = [reqs EXCEPT ![r] = MarketAfterProbe(@, answer)]
    /\ UNCHANGED <<env, session>>

(***************************************************************************)
(* GET /api/market-data of src/unnamed/part_000, 297-445: without live     *)
(* quotes it looks for the last trading date and reads every instrument's  *)
(* candles of that date                                                    *)
(***************************************************************************)
\* how many of the configured instruments the fallback walks through
MaxTokens == 2

\* [...indexTokensNSE, ...indexTokensBSE, ...nifty50Tokens]
allSymbolTokens ==
    <<"26000", "26009", "26037", "2885", "11536", "1594", "3456", "1333", "5258",
      "10940", "3045", "1660", "1394">>

TokenCount == IF MaxTokens < Len(allSymbolTokens) THEN MaxTokens ELSE Len(allSymbolTokens)

\* the single-day answers: for the reference index, for an instrument's last
\* trading day and for its previous close
SearchAnswers == {UpErr, UpNoBody, UpData(HArr(<<>>)), UpData(HArr(<<Num(104)>>))}
LastDayAnswers == {UpErr, UpData(HArr(<<>>)), UpData(HArr(<<Num(104)>>))}
PrevCloseAnswers == {UpErr, UpData(HArr(<<>>)), UpData(HArr(<<Num(100)>>))}

MarketDatedStart(r) ==
    /\ reqs[r].pc = "idle"
    /\ reqs' = [reqs EXCEPT ![r] =
          IF RequireLoginRejects THEN Unauthorized(@, "market-data.dated")
          ELSE Await([@ EXCEPT !.route = "market-data.dated"], "liveQuote",
                     Call("quote.FULL", session.jwtToken, 0))]
    /\ UNCHANGED <<env, session>>

\* after the FULL quote: the live data, or the first probe of the search
MarketDatedAfterFull(q, answer) ==
    IF IsLive(answer)
    THEN SendMarketData([q EXCEPT !.quoteData = answer.list])
    ELSE Await([q EXCEPT !.fallback = TRUE, !.i = 0], "search", ProbeCall(0))

MarketDatedFull(r) ==
    /\ reqs[r].pc = "liveQuote"
    /\ \E answer \in FullAnswers :
          reqs' = [reqs EXCEPT ![r] = MarketDatedAfterFull(@, answer)]
    /\ UNCHANGED <<env, session>>

\* the loop over allSymbolTokens from item k on: the fetch of its candles of
\* the last trading date, or the response after the last item
MarketDatedNextItem(q, k) ==
    IF k > TokenCount THEN SendMarketData([q EXCEPT !.k = k])
    ELSE Await([q EXCEPT !.k = k], "lastDay", ProbeCall(q.actualLastTradingDate))

\* a variant of MarketDatedAfterSearch without the try around the fetch: a
\* throw reaches the outer catch
MarketDatedAfterSearchUncaught(p, answer) ==
    LET ret == getHistoricalDataRobust(answer)
        q == Received(p, answer)
    IN  IF ret.threw THEN Respond(q, 500, [t |-> "error"])
        ELSE IF HasCandles(ret.v)
        THEN MarketDatedNextItem([q EXCEPT !.actualLastTradingDate = q.i], 1)
        ELSE IF q.i + 1 < MAX_SEARCH
        THEN Await([q EXCEPT !.i = q.i + 1], "search", ProbeCall(q.i + 1))
        ELSE Respond([q EXCEPT !.i = q.i + 1], 200,
                     [t |-> "market", indices |-> <<>>, topPerformers |-> <<>>])

\* one turn of the search loop after its await; a throw is caught and ignored
MarketDatedAfterSearch(p, answer) ==
    LET ret == getHistoricalDataRobust(answer)
        q == Received(p, answer)
    IN  IF ~ret.threw /\ HasCandles(ret.v)
        THEN MarketDatedNextItem([q EXCEPT !.actualLastTradingDate = q.i], 1)
        ELSE IF q.i + 1 < MAX_SEARCH
        THEN Await([q EXCEPT !.i = q.i + 1], "search", ProbeCall(q.i + 1))
        ELSE Respond([q EXCEPT !.i = q.i + 1], 200,
                     [t |-> "market", indices |-> <<>>, topPerformers |-> <<>>])

MarketDatedSearch(r) ==
    /\ reqs[r].pc = "search"
    /\ \E answer \in SearchAnswers :
          reqs' = [reqs EXCEPT ![r] = MarketDatedAfterSearch(@, answer)]
    /\ UNCHANGED <<env, session>>

\* after the candles of the last trading date of item k: without candles,
\* or after a throw (catch (itemError)), the item is left out
MarketDatedAfterLastDay(p, answer) ==
    LET ret == getHistoricalDataRobust(answer)
        q == Received(p, answer)
    IN  IF ~ret.threw /\ HasCandles(ret.v)
        THEN Await([q EXCEPT !.currentClose = ret.v.a[1], !.previousClose = JsNull,
                             !.i = 0],
                   "prevClose", ProbeCall(q.actualLastTradingDate + 1))
        ELSE MarketDatedNextItem(q, q.k + 1)

MarketDatedLastDay(r) ==
    /\ reqs[r].pc = "lastDay"
    /\ \E answer \in LastDayAnswers :
          reqs' = [reqs EXCEPT ![r] = MarketDatedAfterLastDay(@, answer)]
    /\ UNCHANGED <<env, session>>

\* quoteData.push({exchange, symbolToken, ..., ltp: currentClose, netChange,
\* percentChange, close: currentClose})
MarketDatedPush(q) ==
    LET item == Quote(allSymbolTokens[q.k], JsUndef, JsUndef, JsUndef, FALSE, q.currentClose)
    IN  MarketDatedNextItem(
            [q EXCEPT !.quoteData = Append(@, Pushed(item, q.previousClose))], q.k + 1)

\* one turn of the previous-close loop of item k after its await; a throw
\* reaches catch (itemError), which leaves the item out
MarketDatedAfterPrev(p, answer) ==
    LET ret == getHistoricalDataRobust(answer)
        q == Received(p, answer)
    IN  IF ret.threw THEN MarketDatedNextItem(q, q.k + 1)
        ELSE IF HasCandles(ret.v)
        THEN MarketDatedPush([q EXCEPT !.previousClose = ret.v.a[1]])
        ELSE IF q.i + 1 < MAX_LOOKBACK
        THEN Await([q EXCEPT !.i = q.i + 1], "prevClose",
                   ProbeCall(q.actualLastTradingDate + q.i + 2))
        ELSE MarketDatedPush([q EXCEPT !.i = q.i + 1])

MarketDatedPrev(r) ==
    /\ reqs[r].pc = "prevClose"
    /\ \E answer \in PrevCloseAnswers :
          reqs' = [reqs EXCEPT ![r] = MarketDatedAfterPrev(@, answer)]
    /\ UNCHANGED <<env, session>>

\* the slot that serves the requests when they come one at a time
Serial == {r \in Reqs : r = 1}

Next ==
    \E r \in Serial :
        \/ NoneInFlight /\ LoginStart(r)
        \/ LoginResponse(r)
        \/ LoginProfile(r)
        \/ NoneInFlight /\ LoginClientcodeStart(r)
        \/ LoginClientcodeResponse(r)
        \/ LoginClientcodeProfile(r)
        \/ NoneInFlight /\ LoginProxyStart(r)
        \/ LoginProxyResponse(r)
        \/ NoneInFlight /\ StockAnalysisStart(r)
        \/ StockAnalysisCandles(r)
        \/ StockAnalysisQuote(r)
        \/ StockAnalysisProbe(r)
        \/ NoneInFlight /\ StockAnalysisV1Start(r)
        \/ StockAnalysisV1Candles(r)
        \/ StockAnalysisV1Quote(r)
        \/ NoneInFlight /\ TechnicalIndicatorsStart(r)
        \/ TechnicalIndicatorsCandles(r)
        \/ NoneInFlight /\ HistoricalDataStart(r)
        \/ HistoricalDataCandles(r)
        \/ NoneInFlight /\ HistoricalRobustStart(r)
        \/ HistoricalRobustCandles(r)
        \/ NoneInFlight /\ InstrumentsStart(r)
        \/ InstrumentsList(r)
        \/ NoneInFlight /\ InstrumentsProxyStart(r)
        \/ InstrumentsProxyList(r)
        \/ NoneInFlight /\ InstrumentsAmxStart(r)
        \/ InstrumentsAmxList(r)
        \/ NoneInFlight /\ MarketDataStart(r)
        \/ MarketDataFull(r)
        \/ MarketDataOhlc(r)
        \/ MarketDataProbe(r)
        \/ NoneInFlight /\ MarketDatedStart(r)
        \/ MarketDatedFull(r)
        \/ MarketDatedSearch(r)
        \/ MarketDatedLastDay(r)
        \/ MarketDatedPrev(r)
        \/ NoneInFlight /\ AiStart(r)
        \/ AiGenerated(r)
        \/ NoneInFlight /\ NewsSummaryStart(r)
        \/ NewsSummaryGenerated(r)
        \/ NoneInFlight /\ MarketNewsStart(r)
        \/ NoneInFlight /\ MarketNewsKeylessStart(r)
        \/ MarketNewsGenerated(r)
        \/ Finish(r)

Spec == Init /\ [][Next]_vars

\* the login requests alone, arriving while others are in flight: every
\* handler runs from one await to the next without interruption
NextLogins ==
    \E r \in Reqs :
        \/ LoginStart(r)
        \/ LoginResponse(r)
        \/ LoginProfile(r)
        \/ Finish(r)

SpecLogins == Init /\ [][NextLogins]_vars

\* the slot of the logins that arrive while slot 1 serves a request
Racing == {r \in Reqs : r = 2}

\* the one-year series of the race: none, or the two closes 104, 107
RaceSeries == {<<>>, Series(2, Num(104), Num(107))}

\* the race is run with an upstream that grants every login, answers every
\* getProfile, and has candles on one of the two days before today
MaxRaceProbes == 2

\* a stock-analysis request in slot 1 and logins in slot 2, each arriving
\* whenever its slot is free; the credentials are all configured
NextRace ==
    \/ \E r \in Serial :
          \/ StockAnalysisStart(r)
          \/ StockAnalysisCandles(r) /\ reqs'[r].closingPrices \in RaceSeries
          \/ StockAnalysisQuote(r)
          \/ StockAnalysisProbe(r) /\ reqs'[r].i < MaxRaceProbes
          \/ Finish(r)
    \/ \E r \in Racing :
          \/ LoginStart(r)
          \/ LoginResponse(r) /\ reqs'[r].pc = "profile"
                              /\ Truthy(reqs'[r].response.data.jwtToken)
          \/ LoginProfile(r) /\ reqs'[r].status = 200
          \/ Finish(r)

\* the server starts with every credential configured
InitRace == Init /\ env = EnvNames

SpecRace == InitRace /\ [][NextRace]_vars

(***************************************************************************)
(* Properties                                                              *)
(***************************************************************************)
\* x is the number a - b
IsDifference(x, a, b) ==
    /\ IsNum(x) /\ IsNum(a) /\ IsNum(b)
    /\ x.n * (a.d * b.d) = ((a.n * b.d) - (b.n * a.d)) * x.d

\* p is the number net / prev * 100, prev not 0
IsPercentOf(p, net, prev) ==
    /\ IsNum(p) /\ IsNum(net) /\ IsNum(prev)
    /\ p.n * (net.d * prev.n) = (net.n * prev.d * 100) * p.d

\* the handlers of POST /api/stock-analysis
AnalysisRoutes == {"stock-analysis", "stock-analysis.v1"}

\* the request r of the latest /api/stock-analysis has been answered 200
Analysed(r) ==
    /\ reqs[r].pc = "done"
    /\ reqs[r].route = "stock-analysis"
    /\ reqs[r].status = 200

\* the live quote of r carries a defined, non-null ltp
LtpUsable(r) ==
    /\ reqs[r].quoteResponse.o = "ok"
    /\ reqs[r].quoteResponse.has
    /\ reqs[r].quoteResponse.ltp.k \notin {"undef", "null"}

\* the live quote of r has thrown, or carries no data or no ltp
LtpUnusable(r) ==
    /\ reqs[r].quoteResponse.o # "none"
    /\ ~LtpUsable(r)

\* C1: a /api/stock-analysis request answered 200 carries null in every
\* indicator field (rsi: 14, dma20: 20, dma50: 50, dma200: 200) whose period
\* is longer than the series of closes the one-year fetch returned.
C1_ShortSeriesIsNull ==
    \A r \in Reqs :
        (reqs[r].pc = "done" /\ reqs[r].route \in AnalysisRoutes /\ reqs[r].status = 200)
        => LET n == Len(reqs[r].candles.a)
               b == reqs[r].body
           IN  /\ n < RSI_PERIOD => b.rsi = JsNull
               /\ n < SMA20_PERIOD => b.dma20 = JsNull
               /\ n < SMA50_PERIOD => b.dma50 = JsNull
               /\ n < SMA200_PERIOD => b.dma200 = JsNull

\* a 200 for 19 closes: rsi computed, the three averages null
C1_Witness ==
    \E r \in Reqs :
        /\ Analysed(r)
        /\ Len(reqs[r].candles.a) = SMA20_PERIOD - 1
        /\ IsNum(reqs[r].body.rsi)
        /\ reqs[r].body.dma20 = JsNull
        /\ reqs[r].body.dma50 = JsNull
        /\ reqs[r].body.dma200 = JsNull

\* the handlers that compute the indicators of a one-year series
IndicatorRoutes == AnalysisRoutes \cup {"technical-indicators"}

\* C2 (as stated): a one-year series of 1 to 199 closes never makes
\* /api/stock-analysis or /api/technical-indicators fail: the answer is a
\* 200 in which the indicators that are too short are null.
C2_ShortSeriesAnswers200 ==
    \A r \in Reqs :
        LET n == Len(reqs[r].candles.a)
        IN  (/\ reqs[r].pc = "done"
             /\ reqs[r].route \in IndicatorRoutes
             /\ reqs[r].candles.k = "arr"
             /\ 1 <= n /\ n < SMA200_PERIOD)
            => /\ reqs[r].status = 200
               /\ reqs[r].body.dma200 = JsNull
               /\ n < SMA50_PERIOD => reqs[r].body.dma50 = JsNull
               /\ n < SMA20_PERIOD => reqs[r].body.dma20 = JsNull
               /\ n < RSI_PERIOD => reqs[r].body.rsi = JsNull

\* C3: when the live quote carries a usable ltp and the previous-close
\* lookup finds a close that is a number other than 0, the answer has
\* currentPrice = ltp, netChange = currentPrice - prevClose and
\* percentChange = netChange / prevClose * 100.
C3_LiveChange ==
    \A r \in Reqs :
        LET q == reqs[r]
            prev == q.previousTradingDayClose
        IN  (Analysed(r) /\ LtpUsable(r) /\ IsNum(q.quoteResponse.ltp)
               /\ IsNum(prev) /\ prev.n # 0)
            => /\ q.body.currentPrice = q.quoteResponse.ltp
               /\ IsDifference(q.body.netChange, q.body.currentPrice, prev)
               /\ IsPercentOf(q.body.percentChange, q.body.netChange, prev)

\* ltp 110 against a previous close of 104: a change of 6, that is 75/13 %
C3_Witness ==
    \E r \in Reqs :
        /\ Analysed(r) /\ LtpUsable(r)
        /\ reqs[r].previousTradingDayClose = Num(104)
        /\ reqs[r].body.currentPrice = Num(110)
        /\ reqs[r].body.netChange = Num(6)
        /\ reqs[r].body.percentChange = Rat(75, 13)

\* the previous close the change of an answered request is computed against,
\* and whether there is one: the close found by the lookup on the live path,
\* the second-to-last close of the series on the fallback path
HasPrevClose(r) ==
    IF reqs[r].fallback THEN Len(reqs[r].closingPrices) > 1
    ELSE reqs[r].previousTradingDayClose.k # "null"

PrevClose(r) ==
    IF reqs[r].fallback
    THEN reqs[r].closingPrices[Len(reqs[r].closingPrices) - 1]
    ELSE reqs[r].previousTradingDayClose

\* no candle was found, the candle has no close value, or the close is 0
PrevCloseZeroOrUnavailable(r) ==
    \/ ~HasPrevClose(r)
    \/ PrevClose(r).k \in {"undef", "null"}
    \/ PrevClose(r) = Num(0)

\* C4 (as stated): on the live path and on the fallback path, a previous
\* close that is 0 or not available gives netChange = 0 and
\* percentChange = 0, never NaN or Infinity.
C4_NoPrevCloseIsZeroChange ==
    \A r \in Reqs :
        (Analysed(r) /\ PrevCloseZeroOrUnavailable(r))
        => /\ reqs[r].body.netChange = Num(0)
           /\ reqs[r].body.percentChange = Num(0)

\* the upstream calls of a request that takes the fallback at the live quote
YearThenQuote(calls) ==
    /\ Len(calls) = 2
    /\ calls[1].api = "candles.year"
    /\ calls[2].api = "quote.LTP"

\* C5: whenever the live quote throws, carries no data, or carries an
\* undefined or null ltp, the fallback is taken: the request is answered 200
\* with currentPrice the last close of the one-year series, the change is
\* taken against the second-to-last close of the same series, and no
\* historical fetch is made after the one-year fetch.
C5_FallbackOnUnusableQuote ==
    \A r \in Reqs :
        LET q == reqs[r]
            n == Len(q.candles.a)
        IN  (q.route = "stock-analysis" /\ LtpUnusable(r))
            => /\ q.pc = "done" /\ q.status = 200 /\ q.fallback
               /\ YearThenQuote(q.calls)
               /\ q.body.currentPrice = q.candles.a[n]
               /\ (n > 1 /\ IsNum(q.candles.a[n]) /\ IsNum(q.candles.a[n - 1])
                         /\ q.candles.a[n - 1].n # 0)
                  => /\ IsDifference(q.body.netChange, q.candles.a[n], q.candles.a[n - 1])
                     /\ IsPercentOf(q.body.percentChange, q.body.netChange,
                                    q.candles.a[n - 1])

\* the live quote throws after a series ending in 104, 107
C5_Witness ==
    \E r \in Reqs :
        /\ Analysed(r)
        /\ reqs[r].quoteResponse.o = "error"
        /\ reqs[r].fallback
        /\ Len(reqs[r].candles.a) = SMA200_PERIOD
        /\ reqs[r].body.currentPrice = Num(107)
        /\ reqs[r].body.netChange = Num(3)
        /\ reqs[r].body.percentChange = Rat(300, 104)

\* C6 (as stated): the fallback is entered only when the live quote throws
\* or carries no usable price: with a defined, non-null ltp the request is
\* answered without the fallback and with currentPrice = ltp, whatever the
\* previous-close lookups do.
C6_FallbackOnlyOnUnusableQuote ==
    \A r \in Reqs :
        (reqs[r].route = "stock-analysis" /\ LtpUsable(r))
        => /\ ~reqs[r].fallback
           /\ reqs[r].pc = "done" => reqs[r].body.currentPrice = reqs[r].quoteResponse.ltp

\* C7: once the one-year fetch has returned a series that is not empty,
\* every outcome of the live quote and of the previous-close lookups ends in
\* a 200: the request is never answered 500 and never left unanswered.
C7_ResolverNeverFails ==
    \A r \in Reqs :
        (/\ reqs[r].route = "stock-analysis"
         /\ reqs[r].candles.k = "arr"
         /\ Len(reqs[r].candles.a) > 0)
        => /\ reqs[r].pc \in {"quote", "probe", "done"}
           /\ reqs[r].pc = "done"
              => (reqs[r].status = 200 /\ reqs[r].body.t = "analysis")

\* a 200 after a usable live quote and a previous-day fetch that failed
C7_Witness ==
    \E r \in Reqs :
        /\ Analysed(r) /\ LtpUsable(r)
        /\ Len(reqs[r].calls) = 3
        /\ reqs[r].calls[3].api = "candles.day"
        /\ reqs[r].fallback

\* the routes behind requireLogin
GuardedRoutes ==
    {"instruments", "historical-data", "stock-analysis", "stock-analysis.v1",
     "market-data", "generate-news-summary"}

\* the session holds no token
NoToken == session.jwtToken.k \in {"null", "undef"} \/ session.jwtToken = Str("")

\* the request r arrives in this step
Arrives(r) == reqs[r].pc = "idle" /\ reqs'[r].pc # "idle"

\* C8: a request to a route behind requireLogin that arrives while the
\* session holds no token is answered 401 at once: its handler does not run
\* (no local of it is set) and no upstream call is made.
C8_NoTokenIs401 ==
    [][\A r \in Reqs :
          (Arrives(r) /\ reqs'[r].route \in GuardedRoutes /\ NoToken)
          => reqs'[r] = [Idle EXCEPT !.pc = "done", !.route = reqs'[r].route,
                                     !.status = 401, !.body = [t |-> "message"],
                                     !.companyName = reqs'[r].companyName]]_vars

\* a 401 of /api/market-data after a login that stored an undefined token
C8_Witness ==
    \E r \in Reqs :
        /\ reqs[r].pc = "done"
        /\ reqs[r].route = "market-data"
        /\ reqs[r].status = 401
        /\ reqs[r].calls = <<>>
        /\ session.jwtToken = JsUndef

\* the environment variables a login handler needs
NeededCredentials(route) ==
    IF route = "login" THEN LoginCreds ELSE {"ANGEL_API_KEY"}

\* C9: a POST /api/login that arrives while a credential its handler reads
\* from the environment is missing is answered 500 at once, with no
\* upstream call and the session unchanged.
C9_MissingCredentialsIs500 ==
    [][\A r \in Reqs :
          (/\ Arrives(r)
           /\ reqs'[r].route \in {"login", "login.proxy"}
           /\ ~(NeededCredentials(reqs'[r].route) \subseteq env))
          => /\ reqs'[r].pc = "done"
             /\ reqs'[r].status = 500
             /\ reqs'[r].calls = <<>>
             /\ session' = session]_vars

\* a 500 of the login when only the TOTP secret is missing
C9_Witness ==
    \E r \in Reqs :
        /\ reqs[r].pc = "done"
        /\ reqs[r].route = "login"
        /\ reqs[r].status = 500
        /\ reqs[r].calls = <<>>
        /\ LoginCreds \ env = {"ANGEL_TOTP_SECRET"}

\* the AI routes that read companyName from the body
CompanyRoutes == AiRoutes \cup {"generate-news-summary"}

\* C10 (as stated): a request to an AI route that requires companyName whose
\* body lacks it is answered 400 without an upstream call, whatever the
\* state of the server.
C10_MissingNameIs400 ==
    \A r \in Reqs :
        (/\ reqs[r].pc # "idle"
         /\ reqs[r].route \in CompanyRoutes
         /\ reqs[r].companyName = JsUndef)
        => /\ reqs[r].pc = "done"
           /\ reqs[r].status = 400
           /\ reqs[r].calls = <<>>

\* C10 (amended): such a request never reaches the upstream, and it is
\* answered 400 when the check that stands before the body check passes:
\* the AI key is configured (company-details, chart-data,
\* technical-indicators) or the session holds a token
\* (generate-news-summary); otherwise that check answers, with 500 for the
\* missing key and 401 for the missing token.
C10_MissingNameNoUpstream ==
    [][\A r \in Reqs :
          (/\ Arrives(r)
           /\ reqs'[r].route \in CompanyRoutes
           /\ reqs'[r].companyName = JsUndef)
          => /\ reqs'[r].pc = "done"
             /\ reqs'[r].calls = <<>>
             /\ reqs'[r].status =
                   IF reqs'[r].route = "generate-news-summary"
                   THEN (IF NoToken THEN 401 ELSE 400)
                   ELSE (IF "GEMINI_API_KEY" \in env THEN 400 ELSE 500)]_vars

\* a 400 of /api/chart-data for a body without companyName
C10_Witness ==
    \E r \in Reqs :
        /\ reqs[r].pc = "done"
        /\ reqs[r].route = "chart-data"
        /\ reqs[r].companyName = JsUndef
        /\ reqs[r].status = 400
        /\ reqs[r].calls = <<>>
        /\ "GEMINI_API_KEY" \in env

\* the handlers of GET /api/instruments
InstrumentRoutes == {"instruments", "instruments.proxy", "instruments.amx"}

\* the entry has exch_seg 'NSE' and a symbol that ends in '-EQ'
MatchesEquityFilter(e) ==
    /\ e.exch_seg = "NSE"
    /\ e.hasSymbol
    /\ Len(e.symbol) >= 3
    /\ e.symbol[Len(e.symbol) - 2] = "-"
    /\ e.symbol[Len(e.symbol) - 1] = "E"
    /\ e.symbol[Len(e.symbol)] = "Q"

\* the positions of the matching entries of a list, and the j-th of them
Matching(list) == {j \in 1..Len(list) : MatchesEquityFilter(list[j])}
Nth(S, j) == CHOOSE i \in S : Cardinality({k \in S : k <= i}) = j

\* out is the list of the matching entries of list, in the order of list
IsEquitySubsequence(out, list) ==
    /\ Len(out) = Cardinality(Matching(list))
    /\ \A j \in 1..Len(out) : out[j] = list[Nth(Matching(list), j)]

\* C11 (as stated): every 200 of GET /api/instruments is exactly the
\* sub-sequence, in upstream order, of the upstream entries with exch_seg
\* 'NSE' and a symbol ending in '-EQ': nothing else is in it and no matching
\* entry is dropped.
C11_InstrumentsAreNseEquity ==
    \A r \in Reqs :
        (reqs[r].pc = "done" /\ reqs[r].route \in InstrumentRoutes /\ reqs[r].status = 200)
        => /\ reqs[r].body.isArray
           /\ IsEquitySubsequence(reqs[r].body.list, reqs[r].response.list)

\* the same for the handler of src/index.js alone
C11_LatestHandlerFilters ==
    \A r \in Reqs :
        (reqs[r].pc = "done" /\ reqs[r].route = "instruments" /\ reqs[r].status = 200)
        => /\ reqs[r].body.isArray
           /\ IsEquitySubsequence(reqs[r].body.list, reqs[r].response.list)

\* the handlers of POST /api/historical-data, which answer with what
\* getHistoricalData returns
HistoricalRoutes == {"historical-data", "historical-data.robust"}

\* C12 (as stated): getHistoricalData throws only when the upstream call
\* itself fails; when the call succeeds and the data field of its payload
\* is no array (null, missing, an object, a string) it returns an empty
\* sequence, never a value that is no array.
C12_NonArrayIsEmpty ==
    \A r \in Reqs :
        (reqs[r].pc = "done" /\ reqs[r].route \in HistoricalRoutes /\ reqs[r].status # 401)
        => IF reqs[r].response.o = "error" THEN reqs[r].status = 500
           ELSE /\ reqs[r].status = 200
                /\ reqs[r].body.data.k = "arr"
                /\ (reqs[r].response.o = "nobody" \/ reqs[r].response.data.k # "arr")
                   => reqs[r].body.data.a = <<>>

\* the same for the getHistoricalData of src/unnamed/part_000, 81-116 alone
C12_RobustFetcherOnly ==
    \A r \in Reqs :
        (reqs[r].pc = "done" /\ reqs[r].route = "historical-data.robust"
           /\ reqs[r].status # 401)
        => IF reqs[r].response.o = "error" THEN reqs[r].status = 500
           ELSE /\ reqs[r].status = 200
                /\ reqs[r].body.data.k = "arr"
                /\ (reqs[r].response.o = "nobody" \/ reqs[r].response.data.k # "arr")
                   => reqs[r].body.data.a = <<>>

\* C13 (as stated): whatever the upstream calls of a request answer, no
\* failure escapes the catch block of its handler, failures raised inside
\* the catch block included: a request that no longer waits for an upstream
\* answer has been answered, once, with a JSON body.
C13_NoFailureEscapes ==
    \A r \in Reqs :
        /\ reqs[r].pc # "unhandled"
        /\ reqs[r].pc = "done"
           => (reqs[r].status \in {200, 400, 401, 404, 500} /\ reqs[r].body # NoBody)

\* the routes whose handlers call the AI text-generation API
AiCallingRoutes == CompanyRoutes \cup {"market-news", "market-news.keyless"}

\* C14 (as stated): while the AI API key is not configured, a request to a
\* route that calls the AI API is answered at once and without the upstream
\* call, with a 500 (for /api/generate-news-summary the status is left
\* open here: its session and body checks come first).
C14_NoKeyNoCall ==
    \A r \in Reqs :
        (/\ reqs[r].pc # "idle"
         /\ reqs[r].route \in AiCallingRoutes
         /\ "GEMINI_API_KEY" \notin env)
        => /\ reqs[r].pc = "done"
           /\ reqs[r].calls = <<>>
           /\ reqs[r].route # "generate-news-summary" => reqs[r].status = 500

\* the same without the handler of src/unnamed/part_000, 706-731
C14_CheckedHandlersOnly ==
    \A r \in Reqs :
        (/\ reqs[r].pc # "idle"
         /\ reqs[r].route \in AiCallingRoutes \ {"market-news.keyless"}
         /\ "GEMINI_API_KEY" \notin env)
        => /\ reqs[r].pc = "done"
           /\ reqs[r].calls = <<>>
           /\ reqs[r].route # "generate-news-summary" => reqs[r].status = 500

\* the handlers of POST /api/login that log in with the server's credentials
LoginRoutes == {"login", "login.clientcode"}

\* C15 (as stated): every 200 of POST /api/login has status, message and a
\* data object that carries both the name and the clientcode of the profile
\* the login stored.
C15_LoginAnswerHasClientcode ==
    \A r \in Reqs :
        (reqs[r].pc = "done" /\ reqs[r].route \in LoginRoutes /\ reqs[r].status = 200)
        => /\ reqs[r].body.status = TRUE
           /\ {"name", "clientcode"} \subseteq DOMAIN reqs[r].body.data
           /\ reqs[r].body.data.clientcode = session.profile.clientcode

\* the same for the handler of src/unnamed/part_002, 74-119 alone
C15_ClientcodeVersionOnly ==
    \A r \in Reqs :
        (reqs[r].pc = "done" /\ reqs[r].route = "login.clientcode" /\ reqs[r].status = 200)
        => /\ reqs[r].body.status = TRUE
           /\ {"name", "clientcode"} \subseteq DOMAIN reqs[r].body.data
           /\ reqs[r].body.data.name = session.profile.name
           /\ reqs[r].body.data.clientcode = session.profile.clientcode

\* the single-day fetches a stock-analysis request has made: its calls after
\* the one-year fetch and the live quote
ProbesOf(q) == SubSeq(q.calls, 3, Len(q.calls))

\* the j-th single-day fetch asks for the day j days before today
ProbesInOrder(q) ==
    /\ Len(ProbesOf(q)) <= MAX_LOOKBACK
    /\ \A j \in 1..Len(ProbesOf(q)) :
          ProbesOf(q)[j].api = "candles.day" /\ ProbesOf(q)[j].day = j

\* one answered single-day fetch of request r: a day with a candle ends the
\* search with that day's first close and without a further call; an empty
\* day is followed by the fetch of the day before it, or by the end of the
\* search once MAX_LOOKBACK days have been asked
ProbeStep(r) ==
    (reqs[r].route = "stock-analysis" /\ reqs[r].pc = "probe" /\ reqs'[r] # reqs[r])
    => LET q == reqs'[r]
           n == Len(ProbesOf(reqs[r]))
       IN  /\ q.response.o = "ok" /\ HasCandles(q.response.data)
              => /\ q.pc = "done" /\ q.calls = reqs[r].calls
                 /\ q.previousTradingDayClose = q.response.data.a[1]
           /\ q.response.o = "ok" /\ ~HasCandles(q.response.data) /\ n < MAX_LOOKBACK
              => /\ q.pc = "probe"
                 /\ q.calls = Append(reqs[r].calls, ProbeCall(n + 1))
           /\ q.response.o = "ok" /\ ~HasCandles(q.response.data) /\ n = MAX_LOOKBACK
              => /\ q.pc = "done" /\ q.calls = reqs[r].calls
                 /\ q.previousTradingDayClose = JsNull
           /\ q.pc = "probe" => ~HasCandles(q.response.data)

\* C16: after a live quote the previous close is looked up with at most
\* MAX_LOOKBACK single-day fetches, for the days 1, 2, ... before today in
\* that order; the lookup stops at the first day with a candle, takes that
\* day's first close as the previous close and fetches nothing after it.
C16_PrevCloseLookup ==
    /\ [](\A r \in Reqs : reqs[r].route = "stock-analysis" => ProbesInOrder(reqs[r]))
    /\ [][\A r \in Reqs : ProbeStep(r)]_vars

\* a lookup that found its candle on the third day before today
C16_Witness ==
    \E r \in Reqs :
        /\ reqs[r].route = "stock-analysis" /\ reqs[r].pc = "done"
        /\ ~reqs[r].fallback
        /\ Len(ProbesOf(reqs[r])) = 3
        /\ HasCandles(reqs[r].response.data)
        /\ reqs[r].previousTradingDayClose = reqs[r].response.data.a[1]

\* C17: on the fallback path of /api/stock-analysis a series of exactly one
\* close gives currentPrice = that close and netChange = percentChange = 0; a
\* series of two or more closes whose second-to-last is a non-zero number
\* gives netChange = last - secondToLast and percentChange = netChange /
\* secondToLast * 100.
C17_FallbackChange ==
    \A r \in Reqs :
        LET q == reqs[r]
            a == q.closingPrices
            n == Len(a)
        IN  (q.route = "stock-analysis" /\ q.pc = "done" /\ q.fallback)
            => /\ n = 1 => /\ q.body.currentPrice = a[1]
                           /\ q.body.netChange = Num(0)
                           /\ q.body.percentChange = Num(0)
               /\ (n >= 2 /\ IsNum(a[n]) /\ IsNum(a[n - 1]) /\ a[n - 1].n # 0)
                  => /\ IsDifference(q.body.netChange, a[n], a[n - 1])
                     /\ IsPercentOf(q.body.percentChange, q.body.netChange, a[n - 1])

\* the fallback after a series of the single close 107
C17_Witness ==
    \E r \in Reqs :
        /\ reqs[r].route = "stock-analysis" /\ reqs[r].pc = "done"
        /\ reqs[r].fallback
        /\ reqs[r].closingPrices = <<Num(107)>>
        /\ reqs[r].body.currentPrice = Num(107)
        /\ reqs[r].body.netChange = Num(0)

\* the three tokens of the session, and of a login response's data
TokensOf(x) == <<x.jwtToken, x.feedToken, x.refreshToken>>

\* the token triples one login response can carry
OneResponseTokens == {TokensOf(Tokens(id)) : id \in LoginIds} \cup {TokensOf(EmptyTokens)}

\* request r processes a successful loginByPassword response in this step
ProcessesLogin(r) ==
    /\ reqs[r].route = "login" /\ reqs[r].pc = "login"
    /\ reqs'[r].pc = "profile"

\* the tokens are written by a processed successful login response, all
\* three from that response, and by nothing else
LastWriterWins ==
    /\ \A r \in Reqs :
          ProcessesLogin(r) => TokensOf(session') = TokensOf(reqs'[r].response.data)
    /\ TokensOf(session') # TokensOf(session) => \E r \in Reqs : ProcessesLogin(r)

\* C18: under any interleaving of concurrent /api/login requests the three
\* session tokens are those of one single login response (or the initial
\* nulls), never a mix of two; they change only when a successful login
\* response is processed, and then to that response's tokens, so that after
\* all logins they are those of the response processed last.
C18_TokensOfOneLogin ==
    /\ [](TokensOf(session) = <<JsNull, JsNull, JsNull>>
             \/ TokensOf(session) \in OneResponseTokens)
    /\ [][LastWriterWins]_vars

\* two logins in flight at once, granted different tokens: the session holds
\* those of the second while the first still waits for its profile
C18_Witness ==
    /\ reqs[1].pc = "profile" /\ reqs[2].pc = "profile"
    /\ TokensOf(reqs[1].response.data) = TokensOf(Tokens("A"))
    /\ TokensOf(reqs[2].response.data) = TokensOf(Tokens("B"))
    /\ TokensOf(session) = TokensOf(Tokens("B"))

\* the calls of a request with the API api
CallsTo(q, api) == {j \in 1..Len(q.calls) : q.calls[j].api = api}

\* a stock-analysis request starts with one one-year fetch, follows it with
\* one live quote, and asks for no single day twice
NoCallTwice(q) ==
    /\ CallsTo(q, "candles.year") = {1} \cap (1..Len(q.calls))
    /\ CallsTo(q, "quote.LTP") = {2} \cap (1..Len(q.calls))
    /\ \A j, k \in 1..Len(q.calls) : q.calls[j] = q.calls[k] => j = k

\* the upstream call request r waits for is answered by a failure
FailedAnswer(r) ==
    \/ reqs[r].pc \in {"candles", "probe"} /\ reqs'[r].response.o \in {"error", "nobody"}
    \/ reqs[r].pc = "quote" /\ ~ValidLtp(reqs'[r].quoteResponse)

\* a failed upstream call of a stock-analysis request ends the request
\* without another call: 500 after the one-year fetch, the answer from the
\* one-year closes after the live quote or a single-day fetch
NoRetryStep(r) ==
    (reqs[r].route = "stock-analysis" /\ reqs'[r] # reqs[r]
       /\ reqs[r].pc \in {"candles", "quote", "probe"} /\ FailedAnswer(r))
    => /\ reqs'[r].pc = "done"
       /\ reqs'[r].calls = reqs[r].calls
       /\ reqs[r].pc = "candles" => reqs'[r].status = 500
       /\ reqs[r].pc # "candles" => reqs'[r].status = 200 /\ reqs'[r].fallback

\* a historical-data request makes its single getHistoricalData call, which
\* is one upstream request, and answers 500 when that fails
OneFetch(q) ==
    /\ Len(q.calls) <= 1
    /\ (q.pc = "done" /\ q.response.o \in {"error", "nobody"}) => q.status = 500

\* C19: no upstream call is retried. One getHistoricalData call is one
\* upstream request and throws on its first failure; a /api/stock-analysis
\* request issues exactly one one-year fetch, then exactly one live quote;
\* after a failed live quote the only recovery is the answer from the closes
\* already fetched, with no further upstream call.
C19_NoRetry ==
    /\ [](\A r \in Reqs :
             /\ reqs[r].route = "stock-analysis" => NoCallTwice(reqs[r])
             /\ reqs[r].route = "historical-data" => OneFetch(reqs[r]))
    /\ [][\A r \in Reqs : NoRetryStep(r)]_vars

\* a stock-analysis request whose live quote failed: answered after the
\* one-year fetch and the quote, and nothing else
C19_Witness ==
    \E r \in Reqs :
        /\ reqs[r].route = "stock-analysis" /\ reqs[r].pc = "done"
        /\ reqs[r].quoteResponse.o = "error"
        /\ reqs[r].fallback /\ reqs[r].status = 200
        /\ Len(reqs[r].calls) = 2

\* request r pushes the entry of its item k in this step
PushesEntry(r) ==
    /\ reqs[r].route = "market-data" /\ reqs[r].pc = "itemProbe"
    /\ Len(reqs'[r].quoteData) = Len(reqs[r].quoteData) + 1

\* the entry pushed has the change the claim asks for, given the previous
\* close the lookup ended with; zeroToo says whether a previous close of 0
\* is to give a netChange of 0
PushedAsClaimed(r, zeroToo) ==
    LET e == reqs'[r].quoteData[Len(reqs'[r].quoteData)]
        currentClose == reqs[r].ohlcRawData[reqs[r].k].close
        found == HasCandles(reqs'[r].response.data)
        previousClose == reqs'[r].response.data.a[1]
    IN  IF ~found
        THEN e.netChange = Num(0) /\ e.percentChange = Num(0)
        ELSE IF previousClose = Num(0)
        THEN /\ e.percentChange = Num(0)
             /\ IF zeroToo THEN e.netChange = Num(0) ELSE e.netChange = currentClose
        ELSE /\ IsDifference(e.netChange, currentClose, previousClose)
             /\ IsPercentOf(e.percentChange, e.netChange, previousClose)

\* C20 (as stated): in the closed-market fallback of GET /api/market-data an
\* entry whose previous close was not found in the lookback, or was found to
\* be 0, has netChange = percentChange = 0; every other entry has netChange =
\* currentClose - previousClose and percentChange = netChange /
\* previousClose * 100.
C20_FallbackEntryChange ==
    [][\A r \in Reqs : PushesEntry(r) => PushedAsClaimed(r, TRUE)]_vars

\* what the handler does: a previous close of 0 leaves netChange at
\* currentClose - 0
C20_ZeroCloseKeepsNetChange ==
    [][\A r \in Reqs : PushesEntry(r) => PushedAsClaimed(r, FALSE)]_vars

\* the positions of the collected quotes that satisfy Test
Positions(q, Test(_)) == {j \in 1..Len(q.quoteData) : Test(q.quoteData[j])}

\* the answer of request r is a 200 of GET /api/market-data
MarketAnswered(r) ==
    reqs[r].route = "market-data" /\ reqs[r].pc = "done" /\ reqs[r].status = 200

\* indices holds the collected index quotes and nothing else; topPerformers
\* holds top-stock quotes only, at most 10, none of them an index quote
ListsAsClaimed(r) ==
    LET q == reqs[r]
        indices == q.body.indices
        top == q.body.topPerformers
    IN  /\ Len(indices) = Cardinality(Positions(q, IsIndex))
        /\ \A j \in 1..Len(indices) :
              IsIndex(indices[j]) /\ \E k \in Positions(q, IsIndex) : q.quoteData[k] = indices[j]
        /\ Len(top) <= 10
        /\ \A j \in 1..Len(top) : IsTopStock(top[j]) /\ ~IsIndex(top[j])

\* no entry of the list stands before one of greater percentChange
NonIncreasing(top) ==
    \A j, k \in 1..Len(top) : j < k => ~JsGt(top[k].percentChange, top[j].percentChange)

\* C21 (as stated): in every 200 of GET /api/market-data indices is exactly
\* the collected index quotes, topPerformers holds only top-stock quotes, at
\* most 10 of them, ordered by percentChange non-increasing, and no quote is
\* in both lists.
C21_MarketDataLists ==
    \A r \in Reqs :
        MarketAnswered(r)
        => ListsAsClaimed(r) /\ NonIncreasing(reqs[r].body.topPerformers)

\* the same when every top-stock quote collected has a number as its
\* percentChange
C21_NumericPercentChange ==
    \A r \in Reqs :
        (MarketAnswered(r)
           /\ \A j \in Positions(reqs[r], IsTopStock) :
                 IsNum(reqs[r].quoteData[j].percentChange))
        => ListsAsClaimed(r) /\ NonIncreasing(reqs[r].body.topPerformers)

\* the membership part alone, whatever the percentChange values are
C21_ListMembership ==
    \A r \in Reqs : MarketAnswered(r) => ListsAsClaimed(r)

\* the answer a request has just received carries at least one candle
GotCandles(q) == q.response.o = "ok" /\ HasCandles(q.response.data)

\* a request in the search for the last trading date has asked the reference
\* index for the days 0 .. i before today, in that order, after its FULL quote
SearchInOrder(q) ==
    q.pc = "search"
    => /\ q.i < MAX_SEARCH
       /\ Len(q.calls) = q.i + 2
       /\ \A j \in 0..q.i : q.calls[j + 2] = [q.calls[1] EXCEPT !.api = "candles.day", !.day = j]

\* a request in a previous-close lookup has asked for the i + 1 days before
\* the last trading date, in that order
LookupInOrder(q) ==
    q.pc = "prevClose"
    => /\ q.i < MAX_LOOKBACK
       /\ \A j \in 0..q.i :
             q.calls[Len(q.calls) - q.i + j].day = q.actualLastTradingDate + 1 + j

\* the upstream calls a request can make: the FULL quote, the search, and
\* for each instrument its last trading day and its lookup
CallBound == 1 + MAX_SEARCH + (TokenCount * (1 + MAX_LOOKBACK))

\* one answered probe of the search of request r: an empty day and a throw
\* are followed by the probe of the day before, or after MAX_SEARCH days by
\* the 200 with two empty lists and no further call; the first day with a
\* candle ends the search
SearchStep(r) ==
    (reqs[r].route = "market-data.dated" /\ reqs[r].pc = "search" /\ reqs'[r] # reqs[r])
    => LET q == reqs'[r]
       IN  /\ GotCandles(q)
              => /\ q.actualLastTradingDate = reqs[r].i
                 /\ q.pc = "lastDay"
                 /\ q.calls = Append(reqs[r].calls, ProbeCall(reqs[r].i))
           /\ (~GotCandles(q) /\ reqs[r].i + 1 < MAX_SEARCH)
              => /\ q.pc = "search" /\ q.actualLastTradingDate = -1
                 /\ q.calls = Append(reqs[r].calls, ProbeCall(reqs[r].i + 1))
           /\ (~GotCandles(q) /\ reqs[r].i + 1 = MAX_SEARCH)
              => /\ q.pc = "done" /\ q.status = 200
                 /\ q.body.indices = <<>> /\ q.body.topPerformers = <<>>
                 /\ q.calls = reqs[r].calls

\* C22: without live quotes the dated GET /api/market-data asks the reference
\* index for at most MAX_SEARCH single days, takes a throw for an empty day,
\* stops at the first day with a candle, and after MAX_SEARCH empty days
\* answers 200 with empty indices and topPerformers without another call;
\* with a date, each instrument's previous-close lookup makes at most
\* MAX_LOOKBACK fetches, so the request makes at most CallBound calls.
C22_BoundedSearch ==
    /\ [](\A r \in Reqs :
             reqs[r].route = "market-data.dated"
             => /\ SearchInOrder(reqs[r])
                /\ LookupInOrder(reqs[r])
                /\ Len(reqs[r].calls) <= CallBound)
    /\ [][\A r \in Reqs : SearchStep(r)]_vars

\* seven days without data, the last of them a throw: 200 with empty lists
\* after the FULL quote and seven probes
C22_Witness ==
    \E r \in Reqs :
        /\ reqs[r].route = "market-data.dated" /\ reqs[r].pc = "done"
        /\ reqs[r].fallback /\ reqs[r].actualLastTradingDate = -1
        /\ reqs[r].response.o = "error"
        /\ reqs[r].status = 200 /\ reqs[r].body.indices = <<>>
        /\ Len(reqs[r].calls) = 1 + MAX_SEARCH

\* the routes behind requireLogin
AuthenticatedRoutes ==
    {"stock-analysis", "stock-analysis.v1", "technical-indicators", "historical-data",
     "historical-data.robust", "instruments", "market-data", "market-data.dated"}

\* request r runs a segment of a login handler in this step
LoginStepOf(r) ==
    /\ reqs[r].route \in LoginRoutes
    /\ reqs[r].pc \in {"login", "profile"}
    /\ reqs'[r] # reqs[r]

\* request r processes a login response without a jwtToken in this step
TokenlessLogin(r) ==
    /\ LoginStepOf(r) /\ reqs[r].pc = "login"
    /\ ~Truthy(reqs'[r].response.data.jwtToken)

\* request r arrives at an authenticated route and is answered 401
Rejected(r) ==
    /\ reqs[r].pc = "idle" /\ reqs'[r].pc = "done"
    /\ reqs'[r].route \in AuthenticatedRoutes
    /\ reqs'[r].status = 401

SessionStep ==
    /\ session' # session => \E r \in Reqs : LoginStepOf(r)
    /\ Truthy(session.jwtToken)
       => /\ session'.jwtToken # JsNull
          /\ ~Truthy(session'.jwtToken) => \E r \in Reqs : TokenlessLogin(r)
    /\ \A r \in Reqs : Rejected(r) => ~Truthy(session.jwtToken)

NoneSuspended == \A r \in Reqs : reqs[r].pc \in {"idle", "done"}

\* C24 (as stated, in its consequence): a login answered with an error
\* status leaves the session record as it was. Every login answered 200
\* stores a profile object, so a session whose profile is still null has
\* seen only logins answered with an error: its tokens are then the nulls
\* the server started with, and authenticated routes are rejected.
C24_FailedLoginKeepsSession ==
    (NoneSuspended /\ session.profile.k = "null")
    => /\ TokensOf(session) = <<JsNull, JsNull, JsNull>>
       /\ RequireLoginRejects

\* the part that holds: a login that ends at its loginByPassword answer
\* (401 for a refused login, 500 for a throw) leaves the session as it was
C24_RefusedLoginKeepsSession ==
    [][\A r \in Reqs :
          (reqs[r].route \in LoginRoutes /\ reqs[r].pc = "login" /\ reqs'[r].pc = "done")
          => session' = session]_vars

\* request r is a login answered 200 whose tokens the session holds, and no
\* other request was granted the same tokens
StoredLogin(r) ==
    /\ reqs[r].route = "login" /\ reqs[r].pc = "done" /\ reqs[r].status = 200
    /\ reqs[r].calls[2].token = session.jwtToken
    /\ \A o \in Reqs \ {r} :
          Len(reqs[o].calls) < 2 \/ reqs[o].calls[2].token # session.jwtToken

\* C25 (as stated): whenever no login is in flight, session.profile is the
\* profile fetched by the login request whose tokens the session holds,
\* whatever the interleaving of concurrent successful logins.
C25_ProfileOfStoredLogin ==
    NoneSuspended
    => \A r \in Reqs : StoredLogin(r) => session.profile = ProfileOf(reqs[r].response)

\* the same when the logins come one at a time
C25_SerialLogins ==
    \A r \in Reqs : StoredLogin(r) => session.profile = ProfileOf(reqs[r].response)

\* the routes whose handlers make more than one upstream call
MultiCallRoutes == {"stock-analysis", "market-data"}

\* every call of request q carries the bearer token of its first call, the
\* one issued in the segment in which requireLogin admitted it
OneToken(q) == \A j \in 1..Len(q.calls) : q.calls[j].token = q.calls[1].token

\* C26 (as stated): all upstream calls made for one authenticated request
\* carry the same bearer token, the session token at the time requireLogin
\* admitted the request, even when a login completes while the request is
\* suspended on an upstream call.
C26_OneTokenPerRequest ==
    \A r \in Reqs : reqs[r].route \in MultiCallRoutes => OneToken(reqs[r])

C27_NumbersFromNumbers ==
    \A r \in Reqs :
        LET q == reqs[r]
        IN  (/\ Analysed(r)
             /\ \A j \in 1..Len(q.closingPrices) : IsNum(q.closingPrices[j])
             /\ q.previousTradingDayClose = JsNull \/ IsNum(q.previousTradingDayClose))
            => /\ IsNum(q.body.currentPrice)
               /\ IsNum(q.body.netChange)
               /\ IsNum(q.body.percentChange)

\* the one-year answer request q has received carries no candles: data is
\* null or an empty array
NoCandlesReceived(q) ==
    /\ q.response.o = "ok"
    /\ q.response.data.k = "null" \/ (q.response.data.k = "arr" /\ Len(q.response.data.a) = 0)

\* the one-year fetch of request q has thrown
FetchThrew(q) == q.response.o \in {"error", "nobody"}

\* the step in which request r receives its one-year answer
YearStep(r) ==
    (reqs[r].route = "stock-analysis" /\ reqs[r].pc = "candles" /\ reqs'[r] # reqs[r])
    => LET q == reqs'[r]
       IN  /\ NoCandlesReceived(q) => q.pc = "done" /\ q.status = 404
           /\ FetchThrew(q) => q.pc = "done" /\ q.status = 500
           /\ q.pc = "done" => q.calls = reqs[r].calls

\* C28: a one-year fetch of /api/stock-analysis that returns no candles
\* (null or an empty array) is answered 404, one that throws is answered 500,
\* and in both cases neither the live quote nor a previous-close fetch is
\* made: the one-year fetch stays the request's only upstream call.
C28_NoCandlesNoFurtherCall ==
    /\ [][\A r \in Reqs : YearStep(r)]_vars
    /\ [](\A r \in Reqs :
             (reqs[r].route = "stock-analysis" /\ reqs[r].pc = "done"
                /\ reqs[r].status \in {404, 500})
             => /\ Len(reqs[r].calls) = 1
                /\ reqs[r].calls[1].api = "candles.year")

\* an empty one-year series answered 404 after the single fetch
C28_Witness ==
    \E r \in Reqs :
        /\ reqs[r].route = "stock-analysis" /\ reqs[r].pc = "done"
        /\ reqs[r].status = 404
        /\ reqs[r].response = UpData(HArr(<<>>))
        /\ Len(reqs[r].calls) = 1

\* the handlers of GET /api/market-data that fetch candles per instrument
MarketRoutes == {"market-data", "market-data.dated"}

\* request r has been answered, and the last candle fetch it made for an
\* instrument in the closed-market fallback had failed
AnsweredAfterFailedFetch(r) ==
    /\ reqs[r].pc = "done" /\ reqs[r].fallback
    /\ reqs[r].k >= 1
    /\ reqs[r].response.o = "error"

\* C29 (as stated): in the closed-market fallback of GET /api/market-data a
\* failed historical fetch for one instrument does not fail the request: the
\* request is answered 200.
C29_FailedFetchStill200 ==
    \A r \in Reqs :
        (reqs[r].route \in MarketRoutes /\ AnsweredAfterFailedFetch(r))
        => reqs[r].status = 200

\* the handler of src/unnamed/part_000 alone: a failed fetch leaves the
\* instrument out, the later instruments are still asked for, and the
\* answer is a 200
C29_DatedHandlerOnly ==
    /\ [](\A r \in Reqs :
             (reqs[r].route = "market-data.dated" /\ reqs[r].pc = "done" /\ reqs[r].fallback)
             => reqs[r].status = 200)
    /\ [][\A r \in Reqs :
             (reqs[r].route = "market-data.dated" /\ reqs[r].pc \in {"lastDay", "prevClose"}
                /\ reqs'[r].response.o = "error" /\ reqs'[r] # reqs[r])
             => /\ reqs'[r].quoteData = reqs[r].quoteData
                /\ reqs'[r].k = reqs[r].k + 1
                /\ reqs[r].k < TokenCount => reqs'[r].pc = "lastDay"]_vars

=============================================================================
